---- MODULE Spec2Model ----
(***************************************************************************)
(* Tournament elimination engine (features/tournament/game.ts) on top of   *)
(* the tournament store (features/tournament/storage.ts).                  *)
(*                                                                         *)
(* The key-value store is three maps, one per key namespace:               *)
(*   tournament       `tournament:<id>`             -> TournamentConfig    *)
(*   tournamentRolls  `tournament:rolls:<id>`       -> hash userId->roll   *)
(*   tournamentRound  `tournament:round:<id>:<n>`   -> RoundData           *)
(* A tournament id `tournament-<now>` is represented by the number <now>.  *)
(*                                                                         *)
(* Every engine function is a sequence of steps, one per awaited store     *)
(* command: a step executes the command and the code that follows it up to *)
(* the next await.  A step is an operator from a world w (clock and store) *)
(* and a call c (position and locals) to the set of possible successors.   *)
(* Spec runs every call from entry to return as one action; SpecConc lets  *)
(* the steps of different calls interleave at the awaits.                  *)
(***************************************************************************)
EXTENDS Integers, Sequences, FiniteSets, TLC

VARIABLES
    clock,            \* Date.now()
    tournament,       \* id -> TournamentConfig, for the stored configs
    tournamentRolls,  \* id -> (userId -> UserRoll), the roll hash of each id
    tournamentRound,  \* <<id, roundNumber>> -> RoundData, for the stored rounds
    maxDrawn,         \* id -> (userId -> highest value drawn in the running round, 0 if none)
    calls,            \* slot -> the call running there (Spec: slot 1 holds the call that returned last)
    nCreated,         \* number of createTournament calls made so far
    elim,             \* input and output of the elimination computation (SpecElim)
    alone,            \* userId -> the rolls hash and the call of the user, run alone (SpecRolls)
    cache,            \* storage service: key -> [value, ttl] held by Redis
    disk,             \* storage service: key -> content of the file cache/<key>.txt
    redisUp,          \* storage service: Redis commands succeed
    diskUp,           \* storage service: file reads and writes succeed
    stored,           \* storage service: key -> the last storeData of the key that returned true
    removedKeys,      \* storage service: keys whose removeData returned true, not stored since
    games,            \* game-state manager: gameId -> the GameState document stored for it
    limits,           \* RateLimiter.limits: key -> [count, resetAt]
    history,          \* the isRateLimited calls made so far: key, time and result of each
    memo,             \* Cache.cache: key -> [value, expiresAt]
    computed,         \* the computeFn invocations made so far, each with its key and time
    nCalls            \* game-state manager and cache: number of calls begun so far

\* the tiers of the storage service (services/storage.ts)
facade == <<cache, disk, redisUp, diskUp, stored, removedKeys>>

\* the game-state manager and the in-memory utilities
utils == <<games, limits, history, memo, computed, nCalls>>

vars == <<clock, tournament, tournamentRolls, tournamentRound, maxDrawn, calls, nCreated, elim,
          alone, facade, utils>>

store == <<tournament, tournamentRolls, tournamentRound>>

\* the clock and the store as one value
World ==
    [ clock    |-> clock,
      tournament |-> tournament,
      rolls    |-> tournamentRolls,
      round    |-> tournamentRound,
      maxDrawn |-> maxDrawn ]

----------------------------------------------------------------------------
(* Bounds *)

NumUsers == 3

NumObjects == 2

MaxGameCalls == 3

\* the RateLimiter instance: maxRequests and windowMs of the constructor
MaxRequests == 2
WindowMs == 2
\* the isRateLimited calls made and the latest time at which one is made
MaxRateCalls == 4
MaxTime == 4

\* the latest time at which a roll is made in SpecRounds
MaxRollTime == 2

\* the retrieveData and removeData calls made in SpecReadRemove
MaxStorageCalls == 3

\* the getOrCompute calls made, the ttl they pass and the values computed
MaxCacheCalls == 3
CacheTtl == 2
NumValues == 2
NumConcUsers == 2
MaxRollLimit == 2
MaxDraw == 2
MaxRound == 1
MaxCreate == 1
MaxInflight == 2
MaxN == 50

(* Program constants *)

DEFAULT_ELIMINATION_PERCENTAGE == 50

HourMs == 60 * 60 * 1000

Users == 1..NumUsers

\* the users who roll in SpecConc
ConcUsers == 1..NumConcUsers

\* the instants the clock is sampled at: one millisecond, and one more than an
\* hour after it
Times == {1, HourMs + 2}

\* the ids createTournament can produce, and the id the other calls are made
\* with: the tournament of the first instant, which may not exist
TournamentIds == Times

TargetIds == {1}

Slots == 1..MaxInflight

Percentages == {0, DEFAULT_ELIMINATION_PERCENTAGE, 100}

\* interaction.user.username of a user
UsernameOf(u) == <<"username", u>>

Idle == [op |-> "idle", pc |-> "idle"]

Put(f, k, v) == (k :> v) @@ f

Msg(text, args) == [text |-> text, args |-> args]

----------------------------------------------------------------------------
(* Pure parts of endRound *)

RECURSIVE InsertDesc(_, _)
InsertDesc(s, x) ==
    IF s = <<>> THEN <<x>>
    ELSE IF Head(s).roll >= x.roll THEN <<Head(s)>> \o InsertDesc(Tail(s), x)
    ELSE <<x>> \o s

\* allRolls.sort((a, b) => b.roll - a.roll): stable, descending by roll
RECURSIVE SortDesc(_)
SortDesc(s) ==
    IF Len(s) = 0 THEN <<>>
    ELSE InsertDesc(SortDesc(SubSeq(s, 1, Len(s) - 1)), s[Len(s)])

\* the (n, pct) with n <= 200, pct in 0..100 for which the double product
\* n * (pct / 100) lies just below the integer n*pct/100
FloatProductBelow ==
    { <<50, 58>>, <<90, 70>>, <<100, 29>>, <<100, 57>>, <<100, 58>>, <<150, 82>>,
      <<170, 70>>, <<180, 35>>, <<180, 70>>, <<200, 29>>, <<200, 57>>, <<200, 58>> }

\* nobody is eliminated
EliminateCountNone(n, pct) == 0

\* Math.floor(sortedRolls.length * (eliminationPercentage / 100)), in doubles
EliminateCount(n, pct) ==
    ((n * pct) \div 100) - (IF <<n, pct>> \in FloatProductBelow THEN 1 ELSE 0)

\* the index n - eliminateCount, one past the last survivor
CutoffIndexFirstOut(n, eliminateCount) ==
    IF n - eliminateCount > 0 THEN n - eliminateCount ELSE 0

CutoffIndex(n, eliminateCount) ==
    IF n - eliminateCount - 1 > 0 THEN n - eliminateCount - 1 ELSE 0

\* sortedRolls[cutoffIndex]?.roll || 0   (cutoffIndex counts from 0)
CutoffRoll(sortedRolls, cutoffIndex) ==
    IF cutoffIndex + 1 \in DOMAIN sortedRolls THEN sortedRolls[cutoffIndex + 1].roll ELSE 0

\* Array.prototype.slice(start)
Slice(s, start) ==
    LET from == IF start < 0
                THEN (IF Len(s) + start > 0 THEN Len(s) + start ELSE 0)
                ELSE start
    IN  SubSeq(s, from + 1, Len(s))

UserIds(rolls) == [k \in DOMAIN rolls |-> rolls[k].userId]

Eliminated(sortedRolls, eliminateCount) ==
    UserIds(Slice(sortedRolls, Len(sortedRolls) - eliminateCount))

Range(s) == {s[k] : k \in DOMAIN s}

\* the orders in which HGETALL may list the fields of a hash
Orders(S) == {f \in [1..Cardinality(S) -> S] : \A a, b \in DOMAIN f : a # b => f[a] # f[b]}

----------------------------------------------------------------------------
(* Tournament store (storage.ts), on a world w *)

HasTournamentConfig(w, tournamentId) == tournamentId \in DOMAIN w.tournament

GetTournamentConfig(w, tournamentId) == w.tournament[tournamentId]

SaveTournamentConfig(w, config) ==
    [w EXCEPT !.tournament = Put(@, config.id, config)]

\* a hash field whose text JSON.parse rejects
MalformedEntry == [malformed |-> TRUE]

Malformed(entry) == "malformed" \in DOMAIN entry

\* getUserRoll returns a roll: the field exists and parses (a parse error is
\* caught and answered with null)
HasUserRoll(w, tournamentId, userId) ==
    /\ userId \in DOMAIN w.rolls[tournamentId]
    /\ ~Malformed(w.rolls[tournamentId][userId])

GetUserRoll(w, tournamentId, userId) == w.rolls[tournamentId][userId]

\* saveUserRoll writing the hash anew with the one field
SaveUserRollWholeHash(w, tournamentId, userId, roll) ==
    [w EXCEPT !.rolls[tournamentId] = (userId :> roll)]

SaveUserRoll(w, tournamentId, userId, roll) ==
    [w EXCEPT !.rolls[tournamentId] = Put(@, userId, roll)]

\* the lists getAllUserRolls may return, one per order in which HGETALL lists
\* the fields; a field that does not parse throws inside the try block and
\* the catch answers with the empty list
GetAllUserRolls(w, tournamentId) ==
    LET hash == w.rolls[tournamentId]
    IN  IF \E u \in DOMAIN hash : Malformed(hash[u])
        THEN {<<>>}
        ELSE {[k \in DOMAIN order |-> hash[order[k]]] : order \in Orders(DOMAIN hash)}

DeleteAllUserRolls(w, tournamentId) ==
    [w EXCEPT !.rolls[tournamentId] = <<>>]

HasRoundData(w, tournamentId, roundNumber) == <<tournamentId, roundNumber>> \in DOMAIN w.round

GetRoundData(w, tournamentId, roundNumber) == w.round[<<tournamentId, roundNumber>>]

SaveRoundData(w, tournamentId, roundNumber, round) ==
    [w EXCEPT !.round = Put(@, <<tournamentId, roundNumber>>, round)]

(* Scans of the key space (KEYS pattern) and the reads built on them *)

\* a key is the sequence of its segments between the colons:
\* `tournament:<id>`, `tournament:rolls:<id>`, `tournament:round:<id>:<n>`;
\* a roll hash exists while it has a field
ConfigKeys(w) == {<<"tournament", t>> : t \in DOMAIN w.tournament}

RollsKeys(w) == {<<"tournament", "rolls", t>> : t \in {x \in DOMAIN w.rolls : w.rolls[x] # <<>>}}

RoundKeys(w) == {<<"tournament", "round", k[1], k[2]>> : k \in DOMAIN w.round}

\* key matches the pattern `<prefix>:*`
MatchesPrefix(key, prefix) ==
    /\ Len(key) > Len(prefix)
    /\ SubSeq(key, 1, Len(prefix)) = prefix

\* the orders in which KEYS may return the keys S
RECURSIVE ScanOrders(_)
ScanOrders(S) ==
    IF S = {} THEN {<<>>}
    ELSE UNION { {<<x>> \o rest : rest \in ScanOrders(S \ {x})} : x \in S }

RECURSIVE InsertAsc(_, _)
InsertAsc(s, x) ==
    IF s = <<>> THEN <<x>>
    ELSE IF Head(s).roundNumber <= x.roundNumber THEN <<Head(s)>> \o InsertAsc(Tail(s), x)
    ELSE <<x>> \o s

\* rounds.sort((a, b) => a.roundNumber - b.roundNumber): stable, ascending
RECURSIVE SortAsc(_)
SortAsc(s) ==
    IF Len(s) = 0 THEN <<>>
    ELSE InsertAsc(SortAsc(SubSeq(s, 1, Len(s) - 1)), s[Len(s)])

\* the round keys KEYS `tournament:round:<tournamentId>:*` returns
ScannedRoundKeys(w, tournamentId) ==
    {key \in RoundKeys(w) : MatchesPrefix(key, <<"tournament", "round", tournamentId>>)}

\* getAllRoundData without the final sort
GetAllRoundDataUnsorted(w, tournamentId) ==
    { [k \in DOMAIN keys |-> w.round[<<keys[k][3], keys[k][4]>>]]
      : keys \in ScanOrders(ScannedRoundKeys(w, tournamentId)) }

\* the lists getAllRoundData may return, one per order of the scan
GetAllRoundData(w, tournamentId) ==
    { SortAsc([k \in DOMAIN keys |-> w.round[<<keys[k][3], keys[k][4]>>]])
      : keys \in ScanOrders(ScannedRoundKeys(w, tournamentId)) }

\* the keys KEYS tournament:* replies with: the pattern has no segment after
\* the prefix, so the keys of rolls and rounds match it too (the keys under
\* tournament:stats: match as well; the model stores no stats)
ScannedTournamentKeys(w) ==
    {key \in ConfigKeys(w) \cup RollsKeys(w) \cup RoundKeys(w) : MatchesPrefix(key, <<"tournament">>)}

\* GET key: the string stored under a config or a round key
GetString(w, key) ==
    IF Len(key) = 2 THEN w.tournament[key[2]] ELSE w.round[<<key[3], key[4]>>]

\* the lists listActiveTournaments may return: GET on a rolls key is refused
\* (the key holds a hash), the error is caught and the answer is the empty list
ListActiveTournaments(w) ==
    IF RollsKeys(w) \cap ScannedTournamentKeys(w) # {}
    THEN {<<>>}
    ELSE { [k \in DOMAIN keys |-> GetString(w, keys[k])] : keys \in ScanOrders(ScannedTournamentKeys(w)) }

----------------------------------------------------------------------------
(* Steps of the engine functions.  Each gives the set of successors        *)
(* [w |-> world, c |-> call] of one step of call c in world w.             *)

To(w, c) == {[w |-> w, c |-> c]}

At(c, pc, locals) == [c EXCEPT !.pc = pc] @@ locals

\* the call has returned: its locals are gone, its result is with the caller
Done(c, result) == [op |-> c.op, pc |-> "done", args |-> c.args, result |-> result]

Failure(message) == [success |-> FALSE, message |-> message]

(* createTournament *)

NewConfig(now, name, maxRoll, rollLimit, deadlineHours, channelId) ==
    [ id           |-> now,
      name         |-> name,
      maxRoll      |-> maxRoll,
      rollLimit    |-> rollLimit,
      deadline     |-> now + deadlineHours * 60 * 60 * 1000,
      currentRound |-> 1,
      status       |-> "active",
      channelId    |-> channelId,
      createdAt    |-> now,
      updatedAt    |-> now ]

\* const now = Date.now(); build config; await saveTournamentConfig(config)
CreateStart(w, c) ==
    LET now    == w.clock
        config == NewConfig(now, c.args.name, c.args.maxRoll, c.args.rollLimit, c.args.deadlineHours, c.args.channelId)
        w1     == SaveTournamentConfig(w, config)
    IN  To([w1 EXCEPT !.maxDrawn[config.id] = [u \in Users |-> 0]],
           At(c, "saveRoundData", [config |-> config, now |-> now]))

\* build round 1; await saveRoundData(config.id, 1, round); return config
CreateSaveRoundData(w, c) ==
    LET round == [roundNumber |-> 1, startTime |-> c.now,
                  participants |-> <<>>, eliminated |-> <<>>]
    IN  To(SaveRoundData(w, c.config.id, 1, round), Done(c, c.config))

(* processUserRoll *)

\* RollStart with the deadline checked before the status
RollStartDeadlineFirst(w, c) ==
    IF ~HasTournamentConfig(w, c.args.tournamentId)
    THEN To(w, Done(c, Failure(Msg("Tournament not found", <<>>))))
    ELSE LET config == GetTournamentConfig(w, c.args.tournamentId)
             now    == w.clock
         IN  IF now > config.deadline
             THEN To(w, Done(c, Failure(Msg("Tournament deadline has passed", <<>>))))
             ELSE IF config.status # "active"
             THEN To(w, Done(c, Failure(Msg("Tournament is not active", <<>>))))
             ELSE To(w, At(c, "getUserRoll", [config |-> config, now |-> now]))

\* await getTournamentConfig; the checks on the config; const now = Date.now()
RollStart(w, c) ==
    IF ~HasTournamentConfig(w, c.args.tournamentId)
    THEN To(w, Done(c, Failure(Msg("Tournament not found", <<>>))))
    ELSE LET config == GetTournamentConfig(w, c.args.tournamentId)
             now    == w.clock
         IN  IF config.status # "active"
             THEN To(w, Done(c, Failure(Msg("Tournament is not active", <<>>))))
             ELSE IF now > config.deadline
             THEN To(w, Done(c, Failure(Msg("Tournament deadline has passed", <<>>))))
             ELSE To(w, At(c, "getUserRoll", [config |-> config, now |-> now]))

\* the record to save and the result, for a draw rollValue
RollOutcome(c, found, existingRoll, rollValue) ==
    LET rollsUsed == IF found THEN existingRoll.rollsUsed + 1 ELSE 1
        roll == [userId |-> c.args.userId, username |-> c.args.username, roll |-> rollValue,
                 timestamp |-> c.now, rollsUsed |-> rollsUsed]
    IN  IF ~found \/ rollValue > existingRoll.roll
        THEN [toSave |-> roll,
              result |-> [success |-> TRUE, roll |-> roll,
                          message |-> Msg("Rolled",
                                          <<rollValue, rollsUsed, c.config.rollLimit>>)]]
        ELSE [toSave |-> [existingRoll EXCEPT !.rollsUsed = rollsUsed],
              result |-> [success |-> TRUE, roll |-> existingRoll,
                          message |-> Msg("Rolled, but your previous roll was better",
                                          <<rollValue, existingRoll.roll, rollsUsed,
                                            c.config.rollLimit>>)]]

\* await getUserRoll; the roll-limit check; the draw
RollGetUserRoll(w, c) ==
    LET found        == HasUserRoll(w, c.args.tournamentId, c.args.userId)
        existingRoll == GetUserRoll(w, c.args.tournamentId, c.args.userId)
    IN  IF found /\ existingRoll.rollsUsed >= c.config.rollLimit
        THEN To(w, Done(c, Failure(Msg("You have used all rolls", <<c.config.rollLimit>>))))
        ELSE UNION { To(w, At(c, "saveUserRoll",
                             [rollValue |-> rollValue,
                              outcome   |-> RollOutcome(c, found, existingRoll, rollValue)]))
                     : rollValue \in 1..c.config.maxRoll }

\* await saveUserRoll(tournamentId, userId, roll); return
RollSaveUserRoll(w, c) ==
    LET w1   == SaveUserRoll(w, c.args.tournamentId, c.args.userId, c.outcome.toSave)
        seen == w.maxDrawn[c.args.tournamentId][c.args.userId]
    IN  To([w1 EXCEPT !.maxDrawn[c.args.tournamentId][c.args.userId] =
                          IF c.rollValue > seen THEN c.rollValue ELSE seen],
           Done(c, c.outcome.result))

(* endRound *)

\* await getTournamentConfig; the checks on the config
EndStart(w, c) ==
    IF ~HasTournamentConfig(w, c.args.tournamentId)
    THEN To(w, Done(c, Failure(Msg("Tournament not found", <<>>))))
    ELSE LET config == GetTournamentConfig(w, c.args.tournamentId)
         IN  IF config.status # "active"
             THEN To(w, Done(c, Failure(Msg("Tournament is not active", <<>>))))
             ELSE To(w, At(c, "getAllUserRolls", [config |-> config]))

\* await getAllUserRolls; the empty check; sort, eliminateCount, cutoff, eliminated
EndGetAllUserRolls(w, c) ==
    UNION { IF Len(allRolls) = 0
            THEN To(w, Done(c, Failure(Msg("No participants in this round", <<>>))))
            ELSE LET sortedRolls    == SortDesc(allRolls)
                     eliminateCount == EliminateCount(Len(sortedRolls), c.args.eliminationPercentage)
                     cutoffIndex    == CutoffIndex(Len(sortedRolls), eliminateCount)
                 IN  To(w, At(c, "getRoundData",
                             [sortedRolls    |-> sortedRolls,
                              eliminateCount |-> eliminateCount,
                              cutoffRoll     |-> CutoffRoll(sortedRolls, cutoffIndex),
                              eliminated     |-> Eliminated(sortedRolls, eliminateCount)]))
            : allRolls \in GetAllUserRolls(w, c.args.tournamentId) }

\* (await getRoundData(...))?.startTime || Date.now(); endTime: Date.now(); build roundData
EndGetRoundData(w, c) ==
    LET found == HasRoundData(w, c.args.tournamentId, c.config.currentRound)
        round == GetRoundData(w, c.args.tournamentId, c.config.currentRound)
        roundData ==
            [roundNumber  |-> c.config.currentRound,
             startTime    |-> IF found /\ round.startTime # 0 THEN round.startTime ELSE w.clock,
             endTime      |-> w.clock,
             participants |-> UserIds(c.sortedRolls),
             eliminated   |-> c.eliminated,
             cutoffRoll   |-> c.cutoffRoll]
    IN  To(w, At(c, "saveRoundData", [roundData |-> roundData]))

\* await saveRoundData(tournamentId, config.currentRound, roundData)
EndSaveRoundData(w, c) ==
    To(SaveRoundData(w, c.args.tournamentId, c.config.currentRound, c.roundData),
       At(c, "deleteAllUserRolls", <<>>))

\* EndDeleteAllUserRolls completing the tournament only when nobody remains
EndDeleteAllUserRollsNobodyLeft(w, c) ==
    LET w1 == DeleteAllUserRolls(w, c.args.tournamentId)
        remainingPlayers == Len(c.sortedRolls) - c.eliminateCount
        config == IF remainingPlayers < 1
                  THEN [c.config EXCEPT !.status = "completed", !.updatedAt = w.clock]
                  ELSE [c.config EXCEPT !.currentRound = @ + 1, !.updatedAt = w.clock]
    IN  To([w1 EXCEPT !.maxDrawn[c.args.tournamentId] = [u \in Users |-> 0]],
           [At(c, "saveTournamentConfig", [remainingPlayers |-> remainingPlayers])
               EXCEPT !.config = config])

\* await deleteAllUserRolls; remainingPlayers; the change of the local config
EndDeleteAllUserRolls(w, c) ==
    LET w1 == DeleteAllUserRolls(w, c.args.tournamentId)
        remainingPlayers == Len(c.sortedRolls) - c.eliminateCount
        config == IF remainingPlayers <= 1
                  THEN [c.config EXCEPT !.status = "completed", !.updatedAt = w.clock]
                  ELSE [c.config EXCEPT !.currentRound = @ + 1, !.updatedAt = w.clock]
    IN  To([w1 EXCEPT !.maxDrawn[c.args.tournamentId] = [u \in Users |-> 0]],
           [At(c, "saveTournamentConfig", [remainingPlayers |-> remainingPlayers])
               EXCEPT !.config = config])

\* EndSaveTournamentConfig seeding the next round with every participant
EndSaveTournamentConfigKeepAll(w, c) ==
    LET w1 == SaveTournamentConfig(w, c.config)
    IN  IF c.remainingPlayers <= 1
        THEN To(w1, Done(c, [success    |-> TRUE,
                             message    |-> Msg("Tournament complete! Winner",
                                                <<c.sortedRolls[1].username>>),
                             eliminated |-> c.eliminated]))
        ELSE To(w1, At(c, "saveNextRoundData",
                       [nextRound |->
                           [roundNumber  |-> c.config.currentRound,
                            startTime    |-> w.clock,
                            participants |-> UserIds(c.sortedRolls),
                            eliminated   |-> <<>>]]))

\* await saveTournamentConfig(config); return the winner, or build nextRound
EndSaveTournamentConfig(w, c) ==
    LET w1 == SaveTournamentConfig(w, c.config)
    IN  IF c.remainingPlayers <= 1
        THEN To(w1, Done(c, [success    |-> TRUE,
                             message    |-> Msg("Tournament complete! Winner",
                                                <<c.sortedRolls[1].username>>),
                             eliminated |-> c.eliminated]))
        ELSE To(w1, At(c, "saveNextRoundData",
                       [nextRound |->
                           [roundNumber  |-> c.config.currentRound,
                            startTime    |-> w.clock,
                            participants |->
                                UserIds(SubSeq(c.sortedRolls, 1, c.remainingPlayers)),
                            eliminated   |-> <<>>]]))

\* await saveRoundData(tournamentId, config.currentRound, nextRound); return
EndSaveNextRoundData(w, c) ==
    To(SaveRoundData(w, c.args.tournamentId, c.config.currentRound, c.nextRound),
       Done(c, [success    |-> TRUE,
                message    |-> Msg("Round ended. Starting round",
                                   <<c.config.currentRound - 1, c.eliminateCount,
                                     c.config.currentRound>>),
                eliminated |-> c.eliminated]))

(* cancelTournament *)

\* await getTournamentConfig; the missing check; the change of the local config
CancelStart(w, c) ==
    IF ~HasTournamentConfig(w, c.args.tournamentId)
    THEN To(w, Done(c, FALSE))
    ELSE To(w, At(c, "saveTournamentConfig",
                  [config |-> [GetTournamentConfig(w, c.args.tournamentId) EXCEPT
                                  !.status = "cancelled", !.updatedAt = w.clock]]))

\* CancelSaveTournamentConfig deleting the rolls of the tournament as well
CancelSaveTournamentConfigAndRolls(w, c) ==
    To(DeleteAllUserRolls(SaveTournamentConfig(w, c.config), c.args.tournamentId),
       Done(c, TRUE))

\* await saveTournamentConfig(config); return true
CancelSaveTournamentConfig(w, c) ==
    To(SaveTournamentConfig(w, c.config), Done(c, TRUE))

----------------------------------------------------------------------------
(* Calls *)

CreateCall(name, maxRoll, rollLimit, deadlineHours, channelId) ==
    [op |-> "createTournament", pc |-> "start",
     args |-> [name |-> name, maxRoll |-> maxRoll, rollLimit |-> rollLimit,
               deadlineHours |-> deadlineHours, channelId |-> channelId]]

RollCall(tournamentId, userId) ==
    [op |-> "processUserRoll", pc |-> "start",
     args |-> [tournamentId |-> tournamentId, userId |-> userId,
               username |-> UsernameOf(userId)]]

EndCall(tournamentId, eliminationPercentage) ==
    [op |-> "endRound", pc |-> "start",
     args |-> [tournamentId |-> tournamentId,
               eliminationPercentage |-> eliminationPercentage]]

CancelCall(tournamentId) ==
    [op |-> "cancelTournament", pc |-> "start", args |-> [tournamentId |-> tournamentId]]

\* one step of call c
StepOf(w, c) ==
    CASE c.op = "createTournament" /\ c.pc = "start"                -> CreateStart(w, c)
      [] c.op = "createTournament" /\ c.pc = "saveRoundData"        -> CreateSaveRoundData(w, c)
      [] c.op = "processUserRoll"  /\ c.pc = "start"                -> RollStart(w, c)
      [] c.op = "processUserRoll"  /\ c.pc = "getUserRoll"          -> RollGetUserRoll(w, c)
      [] c.op = "processUserRoll"  /\ c.pc = "saveUserRoll"         -> RollSaveUserRoll(w, c)
      [] c.op = "endRound"         /\ c.pc = "start"                -> EndStart(w, c)
      [] c.op = "endRound"         /\ c.pc = "getAllUserRolls"      -> EndGetAllUserRolls(w, c)
      [] c.op = "endRound"         /\ c.pc = "getRoundData"         -> EndGetRoundData(w, c)
      [] c.op = "endRound"         /\ c.pc = "saveRoundData"        -> EndSaveRoundData(w, c)
      [] c.op = "endRound"         /\ c.pc = "deleteAllUserRolls"   -> EndDeleteAllUserRolls(w, c)
      [] c.op = "endRound"         /\ c.pc = "saveTournamentConfig" -> EndSaveTournamentConfig(w, c)
      [] c.op = "endRound"         /\ c.pc = "saveNextRoundData"    -> EndSaveNextRoundData(w, c)
      [] c.op = "cancelTournament" /\ c.pc = "start"                -> CancelStart(w, c)
      [] c.op = "cancelTournament" /\ c.pc = "saveTournamentConfig" -> CancelSaveTournamentConfig(w, c)
      [] OTHER -> {}

\* call c run from its position to its return
RECURSIVE Run(_, _)
Run(w, c) ==
    IF c.pc = "done" THEN To(w, c)
    ELSE UNION { Run(x.w, x.c) : x \in StepOf(w, c) }

----------------------------------------------------------------------------
(* Failing store commands.  The reading functions of the store catch the   *)
(* error of a command and answer null (getAllUserRolls: the empty list);   *)
(* the writing functions log the error and throw it again.                 *)

\* the step awaits a reading function of the store
ReadsStore(c) == c.pc \in {"start", "getUserRoll", "getAllUserRolls", "getRoundData"}

\* what the reading functions answer when their command fails: what they
\* answer on a store that holds nothing
Unreadable(w) ==
    [w EXCEPT !.tournament = <<>>,
              !.rolls = [t \in DOMAIN w.rolls |-> <<>>],
              !.round = <<>>]

\* the call ends with the error thrown by a writing function
Thrown == [thrown |-> TRUE, message |-> Msg("store error", <<>>)]

\* one step of call c whose store command fails: a read goes on with null, a
\* write throws, the command having taken effect or not
FailedStepOf(w, c) ==
    IF ReadsStore(c)
    THEN {[w |-> w, c |-> x.c] : x \in StepOf(Unreadable(w), c)}
    ELSE {[w |-> w, c |-> Done(c, Thrown)]}
            \cup {[w |-> x.w, c |-> Done(c, Thrown)] : x \in StepOf(w, c)}

\* call c run to its return, each of its store commands working or failing;
\* failed: a command of the call has failed
RECURSIVE FaultyRun(_, _, _)
FaultyRun(w, c, failed) ==
    IF c.pc = "done" THEN {[w |-> w, c |-> c @@ [failed |-> failed]]}
    ELSE UNION { FaultyRun(x.w, x.c, failed) : x \in StepOf(w, c) }
            \cup UNION { FaultyRun(x.w, x.c, TRUE) : x \in FailedStepOf(w, c) }

----------------------------------------------------------------------------
(* The storage service (services/storage.ts) over the Redis and the disk   *)
(* helpers.  A string is [text |-> its tokens]; the strings written to     *)
(* files are well-formed Unicode, which the utf-8 write and read return    *)
(* unchanged.                                                              *)

GAME_STATE_TTL == 86400

READ_THROUGH_TTL == 3600

\* the functions touch the Redis key and the file of the key they are given
Keys == {"game:1"}

\* ttl of StorageOptions: 0 stands for none given
Ttls == {0, GAME_STATE_TTL}

Options == [ttl : Ttls, persistToDisk : BOOLEAN]

Null == [null |-> TRUE]

Text(tokens) == [text |-> tokens]

EmptyString == Text(<<>>)

PlainText == Text(<<"plain">>)

\* the objects stored as JSON: plain data, which JSON represents
Objects == {[hp |-> n] : n \in 1..NumObjects}

\* JSON.stringify(data)
Stringify(data) == Text(<<"{\"hp\":", data.hp, "}">>)

IsJSON(string) == \E data \in Objects : Stringify(data) = string

\* JSON.parse(jsonString), for a text that is JSON
Parse(string) == CHOOSE data \in Objects : Stringify(data) = string

\* the two tiers as one value
Tiers == [cache |-> cache, disk |-> disk, redisUp |-> redisUp, diskUp |-> diskUp]

Drop(f, k) == [x \in DOMAIN f \ {k} |-> f[x]]

\* setRedis: false without a client or when the command fails; setex with a
\* ttl, set (no expiry) without
SetRedis(f, key, value, ttlSeconds) ==
    IF f.redisUp
    THEN [f  |-> [f EXCEPT !.cache = Put(@, key, [value |-> value, ttl |-> ttlSeconds])],
          ok |-> TRUE]
    ELSE [f |-> f, ok |-> FALSE]

GetRedis(f, key) ==
    IF f.redisUp /\ key \in DOMAIN f.cache THEN f.cache[key].value ELSE Null

DeleteRedis(f, key) ==
    IF f.redisUp THEN [f |-> [f EXCEPT !.cache = Drop(@, key)], ok |-> TRUE]
    ELSE [f |-> f, ok |-> FALSE]

\* writeDisk(`cache/${key}.txt`, data)
WriteDisk(f, key, data) ==
    IF f.diskUp THEN [f |-> [f EXCEPT !.disk = Put(@, key, data)], ok |-> TRUE]
    ELSE [f |-> f, ok |-> FALSE]

ReadDisk(f, key) ==
    IF f.diskUp /\ key \in DOMAIN f.disk THEN f.disk[key] ELSE Null

\* deleteDisk: unlink fails when there is no file
DeleteDisk(f, key) ==
    IF f.diskUp /\ key \in DOMAIN f.disk
    THEN [f |-> [f EXCEPT !.disk = Drop(@, key)], ok |-> TRUE]
    ELSE [f |-> f, ok |-> FALSE]

\* storeData writing to disk only when persistToDisk is set
StoreDataDiskOnRequest(f, key, value, options) ==
    LET redis == SetRedis(f, key, value, options.ttl)
    IN  IF options.persistToDisk
        THEN LET written == WriteDisk(redis.f, key, value)
             IN  [f |-> written.f,
                  result |-> IF ~redis.ok /\ ~written.ok THEN FALSE ELSE TRUE,
                  redisSuccess |-> redis.ok, diskTried |-> TRUE, diskSuccess |-> written.ok]
        ELSE [f |-> redis.f, result |-> redis.ok,
              redisSuccess |-> redis.ok, diskTried |-> FALSE, diskSuccess |-> FALSE]

\* storeData answering with the outcome of the cache write alone
StoreDataCacheResult(f, key, value, options) ==
    LET redis == SetRedis(f, key, value, options.ttl)
    IN  IF options.persistToDisk \/ ~redis.ok
        THEN LET written == WriteDisk(redis.f, key, value)
             IN  [f |-> written.f, result |-> redis.ok,
                  redisSuccess |-> redis.ok, diskTried |-> TRUE, diskSuccess |-> written.ok]
        ELSE [f |-> redis.f, result |-> redis.ok,
              redisSuccess |-> redis.ok, diskTried |-> FALSE, diskSuccess |-> FALSE]

\* storeData; besides the result, whether writeDisk was called and what the
\* two writes returned
StoreData(f, key, value, options) ==
    LET redis == SetRedis(f, key, value, options.ttl)
    IN  IF options.persistToDisk \/ ~redis.ok
        THEN LET written == WriteDisk(redis.f, key, value)
             IN  [f |-> written.f,
                  result |-> IF ~redis.ok /\ ~written.ok THEN FALSE ELSE TRUE,
                  redisSuccess |-> redis.ok, diskTried |-> TRUE, diskSuccess |-> written.ok]
        ELSE [f |-> redis.f, result |-> redis.ok,
              redisSuccess |-> redis.ok, diskTried |-> FALSE, diskSuccess |-> FALSE]

\* retrieveData taking an empty string from the cache for a miss
RetrieveDataTruthy(f, key) ==
    LET redisValue == GetRedis(f, key)
    IN  IF redisValue # Null /\ redisValue # EmptyString
        THEN [f |-> f, result |-> redisValue, diskTried |-> FALSE]
        ELSE LET diskValue == ReadDisk(f, key)
             IN  IF diskValue # Null
                 THEN [f |-> SetRedis(f, key, diskValue, READ_THROUGH_TTL).f,
                       result |-> diskValue, diskTried |-> TRUE]
                 ELSE [f |-> f, result |-> diskValue, diskTried |-> TRUE]

\* retrieveData; besides the result, whether readDisk was called
RetrieveData(f, key) ==
    LET redisValue == GetRedis(f, key)
    IN  IF redisValue # Null
        THEN [f |-> f, result |-> redisValue, diskTried |-> FALSE]
        ELSE LET diskValue == ReadDisk(f, key)
             IN  IF diskValue # Null
                 THEN [f |-> SetRedis(f, key, diskValue, READ_THROUGH_TTL).f,
                       result |-> diskValue, diskTried |-> TRUE]
                 ELSE [f |-> f, result |-> diskValue, diskTried |-> TRUE]

ExistsRedis(f, key) == f.redisUp /\ key \in DOMAIN f.cache

ExistsDisk(f, key) == f.diskUp /\ key \in DOMAIN f.disk

DataExists(f, key) == IF ExistsRedis(f, key) THEN TRUE ELSE ExistsDisk(f, key)

RemoveData(f, key) ==
    LET redis   == DeleteRedis(f, key)
        removed == DeleteDisk(redis.f, key)
    IN  [f |-> removed.f, result |-> redis.ok \/ removed.ok]

StoreJSON(f, key, data, options) == StoreData(f, key, Stringify(data), options)

\* retrieveJSON: null for null and for the empty string; a text that does not
\* parse throws, the catch answers null
RetrieveJSON(f, key) ==
    LET read == RetrieveData(f, key)
        jsonString == read.result
    IN  [f |-> read.f,
         result |-> IF jsonString = Null \/ jsonString = EmptyString THEN Null
                    ELSE IF IsJSON(jsonString) THEN Parse(jsonString)
                    ELSE Null]

\* the domain helpers for user sessions
USER_SESSION_TTL == 3600

SessionKey(userId) == "session:" \o ToString(userId)

StoreUserSession(f, userId, sessionData) ==
    StoreJSON(f, SessionKey(userId), sessionData,
              [ttl |-> USER_SESSION_TTL, persistToDisk |-> FALSE])

RetrieveUserSession(f, userId) == RetrieveJSON(f, SessionKey(userId))

----------------------------------------------------------------------------
(* The game-state manager (services/gameStateManager.ts).  A mutating      *)
(* function reads the document with getGame, changes its copy and writes   *)
(* the whole copy back with storeGameState; the two awaits are its steps.  *)
(* The documents are plain data, which the JSON helpers return as stored.  *)
(* available: the storage service reaches a tier at this step.  The event  *)
(* log and the backup written after a successful store are files of their  *)
(* own and are left out.                                                   *)

GameIds == {"g1"}

GameCall(op, args) == [op |-> op, pc |-> "start", args |-> args]

\* the call returns; n numbers the calls in the order they began and read is
\* what its getGame returned, both kept for the properties
GameDone(c, result, read) == Done(c, result) @@ [n |-> c.n, read |-> read]

\* getGame: null when the document is absent or cannot be read
GetGame(gs, gameId, available) ==
    IF available /\ gameId \in DOMAIN gs THEN gs[gameId] ELSE Null

StoreGameState(gs, gameId, state, available) ==
    IF available THEN [games |-> Put(gs, gameId, state), ok |-> TRUE]
    ELSE [games |-> gs, ok |-> FALSE]

\* createGame: status pending, no players; startedAt and endedAt are 0 while
\* they are not set
NewGame(gameId, type, initialData) ==
    [gameId |-> gameId, type |-> type, status |-> "pending", players |-> <<>>,
     startedAt |-> 0, endedAt |-> 0, data |-> initialData]

\* players.splice(players.indexOf(userId), 1)
RECURSIVE Splice(_, _)
Splice(players, userId) ==
    IF players = <<>> THEN <<>>
    ELSE IF Head(players) = userId THEN Tail(players)
    ELSE <<Head(players)>> \o Splice(Tail(players), userId)

\* { ...data, ...patch }: the keys of patch win
Merge(data, patch) == patch @@ data

\* data.scores and data.bets, [] when the bag has none
Scores(state) == IF "scores" \in DOMAIN state.data THEN state.data.scores ELSE <<>>

Bets(state) == IF "bets" \in DOMAIN state.data THEN state.data.bets ELSE <<>>

\* bets.find(bet => bet.userId === userId) finds a bet
HasBet(state, userId) == \E k \in DOMAIN Bets(state) : Bets(state)[k].userId = userId

\* the change a function makes to the copy it has read
Changed(c, state, now) ==
    CASE c.op = "startGame" ->
           [state EXCEPT !.status = "active", !.startedAt = now]
      [] c.op = "addPlayer" ->
           [state EXCEPT !.players = Append(@, c.args.userId)]
      [] c.op = "removePlayer" ->
           [state EXCEPT !.players = Splice(@, c.args.userId)]
      [] c.op = "updateGameData" ->
           [state EXCEPT !.data = Merge(@, c.args.data)]
      [] c.op = "completeGame" ->
           [state EXCEPT !.status = "completed", !.endedAt = now,
                         !.data = Merge(@, c.args.finalData)]
      [] c.op = "cancelGame" ->
           [state EXCEPT !.status = "cancelled", !.endedAt = now,
                         !.data = IF c.args.reason # ""
                                  THEN Merge(@, [cancelReason |-> c.args.reason])
                                  ELSE @]
      [] c.op = "recordScore" ->
           [state EXCEPT !.data =
               Merge(@, [scores |-> Append(Scores(state),
                                           [userId |-> c.args.userId, score |-> c.args.score,
                                            timestamp |-> now])])]
      [] c.op = "placeBet" ->
           [state EXCEPT !.data =
               Merge(@, [bets |-> Append(Bets(state),
                                         [userId |-> c.args.userId, choice |-> c.args.choice,
                                          amount |-> c.args.amount, timestamp |-> now])])]

\* the functions without the early returns of addPlayer and removePlayer
GameStartUnchecked(gs, c, now, available) ==
    LET state == GetGame(gs, c.args.gameId, available)
    IN  IF state = Null THEN [games |-> gs, c |-> GameDone(c, FALSE, state)]
        ELSE [games |-> gs,
              c |-> At(c, "storeGameState",
                       [state |-> Changed(c, state, now), read |-> state])]

\* placeBet without the look for a bet of the user
GameStartNoFind(gs, c, now, available) ==
    LET state == GetGame(gs, c.args.gameId, available)
    IN  IF state = Null THEN [games |-> gs, c |-> GameDone(c, FALSE, state)]
        ELSE IF c.op = "placeBet" /\ state.type # "flaskgamba"
        THEN [games |-> gs, c |-> GameDone(c, FALSE, state)]
        ELSE [games |-> gs,
              c |-> At(c, "storeGameState",
                       [state |-> Changed(c, state, now), read |-> state])]

\* the functions storing a new pending game when none is found
GameStartCreating(gs, c, now, available) ==
    LET state == GetGame(gs, c.args.gameId, available)
    IN  IF state = Null
        THEN [games |-> gs,
              c |-> At(c, "storeGameState",
                       [state |-> Changed(c, NewGame(c.args.gameId, "quiz", <<>>), now),
                        read |-> state])]
        ELSE [games |-> gs,
              c |-> At(c, "storeGameState",
                       [state |-> Changed(c, state, now), read |-> state])]

\* await getGame; the missing check; the early returns of addPlayer and
\* removePlayer; the change of the copy
GameStart(gs, c, now, available) ==
    LET state == GetGame(gs, c.args.gameId, available)
    IN  IF state = Null THEN [games |-> gs, c |-> GameDone(c, FALSE, state)]
        ELSE IF c.op = "placeBet" /\ state.type # "flaskgamba"
        THEN [games |-> gs, c |-> GameDone(c, FALSE, state)]
        ELSE IF c.op = "placeBet" /\ HasBet(state, c.args.userId)
        THEN [games |-> gs, c |-> GameDone(c, FALSE, state)]
        ELSE IF c.op = "addPlayer" /\ c.args.userId \in Range(state.players)
        THEN [games |-> gs, c |-> GameDone(c, TRUE, state)]
        ELSE IF c.op = "removePlayer" /\ c.args.userId \notin Range(state.players)
        THEN [games |-> gs, c |-> GameDone(c, TRUE, state)]
        ELSE [games |-> gs,
              c |-> At(c, "storeGameState",
                       [state |-> Changed(c, state, now), read |-> state])]

\* storeGameState writing the players of the copy after those stored
GameStoreMerging(gs, c, available) ==
    LET old   == IF c.args.gameId \in DOMAIN gs THEN gs[c.args.gameId].players ELSE <<>>
        state == [c.state EXCEPT !.players =
                     old \o SelectSeq(@, LAMBDA u : u \notin Range(old))]
        r     == StoreGameState(gs, c.args.gameId, state, available)
    IN  [games |-> r.games, c |-> GameDone(c, r.ok, c.read)]

\* await storeGameState(gameId, state); return success
GameStore(gs, c, available) ==
    LET r == StoreGameState(gs, c.args.gameId, c.state, available)
    IN  [games |-> r.games, c |-> GameDone(c, r.ok, c.read)]

\* createGame: the new document is stored without a read
GameCreate(gs, c, available) ==
    LET r == StoreGameState(gs, c.args.gameId,
                            NewGame(c.args.gameId, c.args.type, c.args.initialData), available)
    IN  [games |-> r.games, c |-> GameDone(c, r.ok, Null)]

\* createFlaskGambaRound: createGame(gameId, 'flaskgamba', {..., bets: []})
FlaskGambaData(c) ==
    [channelId |-> c.args.channelId, question |-> c.args.question,
     options |-> c.args.options, bets |-> <<>>]

GameCreateFlaskGamba(gs, c, available) ==
    LET r == StoreGameState(gs, c.args.gameId,
                            NewGame(c.args.gameId, "flaskgamba", FlaskGambaData(c)), available)
    IN  [games |-> r.games, c |-> GameDone(c, r.ok, Null)]

\* one step of the call c
GameStepOf(gs, c, now, available) ==
    IF c.op = "createGame" THEN GameCreate(gs, c, available)
    ELSE IF c.op = "createFlaskGambaRound" THEN GameCreateFlaskGamba(gs, c, available)
    ELSE IF c.pc = "start" THEN GameStart(gs, c, now, available)
    ELSE GameStore(gs, c, available)

----------------------------------------------------------------------------
(* The rate limiter (utils/rate-limit.ts): a fixed window per key.  reset  *)
(* is called nowhere in the program and is left out.                       *)

Actions == {"roll", "default"}

\* the key `${userId}:${action}` for every action
RateKeyUserOnly(userId, action) == ToString(userId)

\* const key = `${userId}:${action}`
RateKey(userId, action) == ToString(userId) \o ":" \o action

\* isRateLimited with a blocked call starting the window anew
IsRateLimitedExtending(ls, userId, action, now) ==
    LET key == RateKey(userId, action)
    IN  IF key \notin DOMAIN ls \/ now > ls[key].resetAt
        THEN [limits |-> Put(ls, key, [count |-> 1, resetAt |-> now + WindowMs]),
              result |-> FALSE]
        ELSE IF ls[key].count >= MaxRequests
        THEN [limits |-> [ls EXCEPT ![key].resetAt = now + WindowMs], result |-> TRUE]
        ELSE [limits |-> [ls EXCEPT ![key].count = @ + 1], result |-> FALSE]

\* reset: this.limits.delete(key)
Reset(ls, userId, action) ==
    [key \in DOMAIN ls \ {RateKey(userId, action)} |-> ls[key]]

\* isRateLimited: the limits afterwards and the answer
IsRateLimited(ls, userId, action, now) ==
    LET key == RateKey(userId, action)
    IN  IF key \notin DOMAIN ls \/ now > ls[key].resetAt
        THEN [limits |-> Put(ls, key, [count |-> 1, resetAt |-> now + WindowMs]),
              result |-> FALSE]
        ELSE IF ls[key].count >= MaxRequests
        THEN [limits |-> ls, result |-> TRUE]
        ELSE [limits |-> [ls EXCEPT ![key].count = @ + 1], result |-> FALSE]

\* cleanup: the entries past their resetAt are deleted
Cleanup(ls, now) ==
    [key \in {k \in DOMAIN ls : ~(now > ls[k].resetAt)} |-> ls[key]]

----------------------------------------------------------------------------
(* The in-memory cache (utils/cache.ts).  getOrCompute awaits computeFn    *)
(* between its get and its set; what computeFn resolves to is its caller's *)
(* business, here any of the values.                                       *)

CacheKeys == {"k1"}
Values == 1..NumValues

\* get: an entry past its expiresAt is deleted and undefined returned
\* (defined FALSE)
CacheGet(m, key, now) ==
    IF key \notin DOMAIN m THEN [memo |-> m, defined |-> FALSE]
    ELSE IF now > m[key].expiresAt
    THEN [memo |-> [k \in DOMAIN m \ {key} |-> m[k]], defined |-> FALSE]
    ELSE [memo |-> m, defined |-> TRUE, value |-> m[key].value]

\* set: expiresAt = Date.now() + ttl
CacheSet(m, key, value, ttl, now) ==
    Put(m, key, [value |-> value, expiresAt |-> now + ttl])

\* getOrCompute up to its await: the cached value is returned, or computeFn
\* is invoked
GetOrComputeStart(m, c, now) ==
    LET got == CacheGet(m, c.args.key, now)
    IN  IF got.defined
        THEN [memo |-> got.memo, invoked |-> FALSE,
              c |-> Done(c, got.value) @@ [n |-> c.n]]
        ELSE [memo |-> got.memo, invoked |-> TRUE,
              c |-> At(c, "computeFn", <<>>)]

\* computeFn has resolved to value: set and return
GetOrComputeFinish(m, c, value, now) ==
    [memo |-> CacheSet(m, c.args.key, value, c.args.ttl, now),
     c |-> Done(c, value) @@ [n |-> c.n]]

----------------------------------------------------------------------------
(* retrieveData and removeData of the storage service command by command: *)
(* each await of a tier helper is a step of the call.                     *)

\* await getRedis(key); a value found is returned
RetrieveGetRedis(f, c) ==
    LET redisValue == GetRedis(f, c.args.key)
    IN  IF redisValue # Null
        THEN [f |-> f, c |-> Done(c, redisValue) @@ [n |-> c.n]]
        ELSE [f |-> f, c |-> At(c, "readDisk", <<>>)]

\* await readDisk(diskPath); null is returned
RetrieveReadDisk(f, c) ==
    LET diskValue == ReadDisk(f, c.args.key)
    IN  IF diskValue # Null
        THEN [f |-> f, c |-> At(c, "setRedis", [diskValue |-> diskValue])]
        ELSE [f |-> f, c |-> Done(c, diskValue) @@ [n |-> c.n]]

\* await setRedis(key, diskValue, 3600); return diskValue
RetrieveSetRedis(f, c) ==
    [f |-> SetRedis(f, c.args.key, c.diskValue, READ_THROUGH_TTL).f,
     c |-> Done(c, c.diskValue) @@ [n |-> c.n]]

\* await deleteRedis(key)
RemoveDeleteRedis(f, c) ==
    LET redis == DeleteRedis(f, c.args.key)
    IN  [f |-> redis.f, c |-> At(c, "deleteDisk", [redisSuccess |-> redis.ok])]

\* await deleteDisk(diskPath); return redisSuccess || diskSuccess
RemoveDeleteDisk(f, c) ==
    LET removed == DeleteDisk(f, c.args.key)
    IN  [f |-> removed.f,
         c |-> Done(c, c.redisSuccess \/ removed.ok)
                  @@ [n |-> c.n, redisSuccess |-> c.redisSuccess,
                      diskSuccess |-> removed.ok]]

\* one step of the call c
StorageStepOf(f, c) ==
    IF c.op = "retrieveData"
    THEN CASE c.pc = "start"    -> RetrieveGetRedis(f, c)
           [] c.pc = "readDisk" -> RetrieveReadDisk(f, c)
           [] c.pc = "setRedis" -> RetrieveSetRedis(f, c)
    ELSE CASE c.pc = "start"      -> RemoveDeleteRedis(f, c)
           [] c.pc = "deleteDisk" -> RemoveDeleteDisk(f, c)

----------------------------------------------------------------------------
(* Initial state: empty store, no call made *)

InitEngine ==
    /\ clock = 1
    /\ tournament = <<>>
    /\ tournamentRolls = [t \in TournamentIds |-> <<>>]
    /\ tournamentRound = <<>>
    /\ maxDrawn = [t \in TournamentIds |-> [u \in Users |-> 0]]
    /\ calls = [i \in Slots |-> Idle]
    /\ nCreated = 0
    /\ alone = <<>>
    /\ cache = <<>>
    /\ disk = <<>>
    /\ redisUp = TRUE
    /\ diskUp = TRUE
    /\ stored = <<>>
    /\ removedKeys = {}
    /\ games = <<>>
    /\ limits = <<>>
    /\ history = <<>>
    /\ memo = <<>>
    /\ computed = <<>>
    /\ nCalls = 0

Init ==
    /\ InitEngine
    /\ elim = [phase |-> "none"]

Commit(i, x) ==
    /\ clock' = x.w.clock
    /\ tournament' = x.w.tournament
    /\ tournamentRolls' = x.w.rolls
    /\ tournamentRound' = x.w.round
    /\ maxDrawn' = x.w.maxDrawn
    /\ calls' = [calls EXCEPT ![i] = x.c]

Tick ==
    /\ \E t \in Times : t > clock /\ clock' = t
    /\ UNCHANGED <<store, maxDrawn, calls, nCreated, elim, alone, facade, utils>>

(* Spec: the calls are made one after the other *)

\* rolls are made and rounds are ended in the first MaxRound rounds
WithinRounds(tournamentId) ==
    HasTournamentConfig(World, tournamentId) =>
        GetTournamentConfig(World, tournamentId).currentRound <= MaxRound

CreateTournament(name, maxRoll, rollLimit, deadlineHours, channelId) ==
    /\ nCreated < MaxCreate
    /\ nCreated' = nCreated + 1
    /\ \E x \in Run(World, CreateCall(name, maxRoll, rollLimit, deadlineHours, channelId)) :
          Commit(1, x)
    /\ UNCHANGED <<elim, alone, facade, utils>>

ProcessUserRoll(tournamentId, userId) ==
    /\ WithinRounds(tournamentId)
    /\ \E x \in Run(World, RollCall(tournamentId, userId)) : Commit(1, x)
    /\ UNCHANGED <<nCreated, elim, alone, facade, utils>>

EndRound(tournamentId, eliminationPercentage) ==
    /\ WithinRounds(tournamentId)
    /\ \E x \in Run(World, EndCall(tournamentId, eliminationPercentage)) : Commit(1, x)
    /\ UNCHANGED <<nCreated, elim, alone, facade, utils>>

CancelTournament(tournamentId) ==
    /\ \E x \in Run(World, CancelCall(tournamentId)) : Commit(1, x)
    /\ UNCHANGED <<nCreated, elim, alone, facade, utils>>

Next ==
    \/ \E rollLimit \in 1..MaxRollLimit : CreateTournament("Cup", MaxDraw, rollLimit, 1, "channel")
    \/ \E t \in TargetIds, u \in Users : ProcessUserRoll(t, u)
    \/ \E t \in TargetIds, pct \in Percentages : EndRound(t, pct)
    \/ \E t \in TargetIds : CancelTournament(t)
    \/ Tick

Spec == Init /\ [][Next]_vars

(* SpecRecreate: as Spec, with one more createTournament call *)

CreateTournamentAgain(name, maxRoll, rollLimit, deadlineHours, channelId) ==
    /\ nCreated = MaxCreate
    /\ nCreated' = nCreated + 1
    /\ \E x \in Run(World, CreateCall(name, maxRoll, rollLimit, deadlineHours, channelId)) :
          Commit(1, x)
    /\ UNCHANGED <<elim, alone, facade, utils>>

NextRecreate ==
    \/ Next
    \/ \E rollLimit \in 1..MaxRollLimit :
          CreateTournamentAgain("Cup", MaxDraw, rollLimit, 1, "channel")

SpecRecreate == Init /\ [][NextRecreate]_vars

(* SpecConc: the calls overlap; each step of a call is one action *)

\* slot i is the first free one: the call enters and runs to its first await
BeginCall(i, c) ==
    /\ calls[i].pc = "idle"
    /\ \A j \in Slots : j < i => calls[j].pc # "idle"
    /\ \E x \in StepOf(World, c) : Commit(i, x)
    /\ UNCHANGED <<elim, alone, facade, utils>>

BeginCreateTournament(i, name, maxRoll, rollLimit, deadlineHours, channelId) ==
    /\ nCreated < MaxCreate
    /\ nCreated' = nCreated + 1
    /\ BeginCall(i, CreateCall(name, maxRoll, rollLimit, deadlineHours, channelId))

BeginProcessUserRoll(i, tournamentId, userId) ==
    /\ WithinRounds(tournamentId)
    /\ BeginCall(i, RollCall(tournamentId, userId))
    /\ UNCHANGED nCreated

BeginEndRound(i, tournamentId, eliminationPercentage) ==
    /\ WithinRounds(tournamentId)
    /\ BeginCall(i, EndCall(tournamentId, eliminationPercentage))
    /\ UNCHANGED nCreated

BeginCancelTournament(i, tournamentId) ==
    /\ BeginCall(i, CancelCall(tournamentId))
    /\ UNCHANGED nCreated

\* the awaited command of the call in slot i completes and the call runs on
Continue(i) ==
    /\ calls[i].pc \notin {"idle", "done"}
    /\ \E x \in StepOf(World, calls[i]) : Commit(i, x)
    /\ UNCHANGED <<nCreated, elim, alone, facade, utils>>

\* the caller takes the result
Return(i) ==
    /\ calls[i].pc = "done"
    /\ calls' = [calls EXCEPT ![i] = Idle]
    /\ UNCHANGED <<clock, store, maxDrawn, nCreated, elim, alone, facade, utils>>

NextConc ==
    \/ \E i \in Slots, rollLimit \in 1..MaxRollLimit :
          BeginCreateTournament(i, "Cup", MaxDraw, rollLimit, 1, "channel")
    \/ \E i \in Slots, t \in TargetIds, u \in ConcUsers : BeginProcessUserRoll(i, t, u)
    \/ \E i \in Slots, t \in TargetIds :
          BeginEndRound(i, t, DEFAULT_ELIMINATION_PERCENTAGE)
    \/ \E i \in Slots, t \in TargetIds : BeginCancelTournament(i, t)
    \/ \E i \in Slots : Continue(i)
    \/ \E i \in Slots : Return(i)
    \/ Tick

SpecConc == Init /\ [][NextConc]_vars

(* SpecElim: the elimination computation of endRound on n recorded rolls *)

\* n recorded rolls as getAllUserRolls returns them, user k having roll 1 + k % MaxDraw
RecordedRolls(n) ==
    [k \in 1..n |-> [userId |-> k, username |-> UsernameOf(k), roll |-> 1 + (k % MaxDraw),
                     timestamp |-> 1, rollsUsed |-> 1]]

InitElim ==
    /\ InitEngine
    /\ \E n \in 1..MaxN, pct \in 0..100 :
          elim = [phase |-> "input", n |-> n, eliminationPercentage |-> pct]

\* lines 168-179 and 186 of endRound
Eliminate ==
    /\ elim.phase = "input"
    /\ LET sortedRolls    == SortDesc(RecordedRolls(elim.n))
           eliminateCount == EliminateCount(Len(sortedRolls), elim.eliminationPercentage)
           cutoffIndex    == CutoffIndex(Len(sortedRolls), eliminateCount)
       IN  elim' = [phase |-> "output", n |-> elim.n,
                    eliminationPercentage |-> elim.eliminationPercentage,
                    sortedRolls  |-> sortedRolls,
                    participants |-> UserIds(sortedRolls),
                    eliminated   |-> Eliminated(sortedRolls, eliminateCount),
                    cutoffRoll   |-> CutoffRoll(sortedRolls, cutoffIndex)]
    /\ UNCHANGED <<clock, store, maxDrawn, calls, nCreated, alone, facade, utils>>

NextElim == Eliminate

SpecElim == InitElim /\ [][NextElim]_vars

(* SpecStore: the functions of the tournament store, called with the       *)
(* records the engine passes them                                          *)

ReadCall(op, tournamentId) ==
    [op |-> op, pc |-> "start", args |-> [tournamentId |-> tournamentId]]

\* the rounds saved in SpecStore: MaxRound + 1 of a target tournament, the
\* first of any other
StoreRounds(t) == IF t \in TargetIds THEN 1..(MaxRound + 1) ELSE {1}

\* a write: the store changes, the caller holds no result
StoreWrite(w) ==
    /\ tournament' = w.tournament
    /\ tournamentRolls' = w.rolls
    /\ tournamentRound' = w.round
    /\ calls' = [calls EXCEPT ![1] = Idle]
    /\ UNCHANGED <<clock, maxDrawn, nCreated, elim, alone, facade, utils>>

\* a read: the caller holds the result, the store is as it was
StoreRead(op, tournamentId, result) ==
    /\ calls' = [calls EXCEPT ![1] = Done(ReadCall(op, tournamentId), result)]
    /\ UNCHANGED <<clock, store, maxDrawn, nCreated, elim, alone, facade, utils>>

StoreSaveTournamentConfig(t) ==
    StoreWrite(SaveTournamentConfig(World, NewConfig(t, "Cup", MaxDraw, 1, 1, "channel")))

\* saveRoundData(t, n, round) with round.roundNumber = n, as createTournament
\* and endRound call it: an open round, or a closed one
StoreSaveRoundData(t, n, closed) ==
    LET open == [roundNumber |-> n, startTime |-> clock,
                 participants |-> <<>>, eliminated |-> <<>>]
    IN  StoreWrite(SaveRoundData(World, t, n,
                       IF closed THEN open @@ [endTime |-> clock, cutoffRoll |-> 0]
                       ELSE open))

StoreSaveUserRoll(t, u) ==
    StoreWrite(SaveUserRoll(World, t, u,
                   [userId |-> u, username |-> UsernameOf(u), roll |-> 1 + (u % MaxDraw),
                    timestamp |-> clock, rollsUsed |-> 1]))

StoreDeleteAllUserRolls(t) ==
    /\ tournamentRolls[t] # <<>>
    /\ StoreWrite(DeleteAllUserRolls(World, t))

\* something other than saveUserRoll leaves text that is not JSON in a field
CorruptUserRoll(t, u) ==
    StoreWrite(SaveUserRoll(World, t, u, MalformedEntry))

GetAllRoundDataCall(t) ==
    \E result \in GetAllRoundData(World, t) : StoreRead("getAllRoundData", t, result)

GetAllUserRollsCall(t) ==
    \E result \in GetAllUserRolls(World, t) : StoreRead("getAllUserRolls", t, result)

NextStore ==
    \/ \E t \in TournamentIds : StoreSaveTournamentConfig(t)
    \/ \E t \in TournamentIds : \E n \in StoreRounds(t), closed \in BOOLEAN :
          StoreSaveRoundData(t, n, closed)
    \/ \E t \in TargetIds, u \in ConcUsers : StoreSaveUserRoll(t, u)
    \/ \E t \in TargetIds : StoreDeleteAllUserRolls(t)
    \/ \E t \in TargetIds, u \in ConcUsers : CorruptUserRoll(t, u)
    \/ \E t \in TournamentIds : GetAllRoundDataCall(t)
    \/ \E t \in TargetIds : GetAllUserRollsCall(t)

SpecStore == Init /\ [][NextStore]_vars

(* SpecList: the store, with the tournaments listed *)

ListActiveTournamentsCall ==
    \E result \in ListActiveTournaments(World) :
        /\ calls' = [calls EXCEPT ![1] = [op |-> "listActiveTournaments", pc |-> "done",
                                          result |-> result]]
        /\ UNCHANGED <<clock, store, maxDrawn, nCreated, elim, alone, facade, utils>>

NextList == NextStore \/ ListActiveTournamentsCall

SpecList == Init /\ [][NextList]_vars

(* SpecFault: the engine on a store whose commands may fail *)

FaultyProcessUserRoll(tournamentId, userId) ==
    /\ WithinRounds(tournamentId)
    /\ \E x \in FaultyRun(World, RollCall(tournamentId, userId), FALSE) : Commit(1, x)
    /\ UNCHANGED <<nCreated, elim, alone, facade, utils>>

FaultyEndRound(tournamentId, eliminationPercentage) ==
    /\ WithinRounds(tournamentId)
    /\ \E x \in FaultyRun(World, EndCall(tournamentId, eliminationPercentage), FALSE) :
          Commit(1, x)
    /\ UNCHANGED <<nCreated, elim, alone, facade, utils>>

NextFault ==
    \/ \E rollLimit \in 1..MaxRollLimit : CreateTournament("Cup", MaxDraw, rollLimit, 1, "channel")
    \/ \E t \in TargetIds, u \in ConcUsers : FaultyProcessUserRoll(t, u)
    \/ \E t \in TargetIds, pct \in Percentages : FaultyEndRound(t, pct)

SpecFault == Init /\ [][NextFault]_vars

(* SpecRolls: the users roll on one tournament, each user one call at a    *)
(* time, the calls of different users overlapping.  alone[u] follows the   *)
(* calls of user u on a rolls hash that only u writes, with the same       *)
(* draws.                                                                  *)

AloneOf(u) == IF u \in DOMAIN alone THEN alone[u] ELSE [hash |-> <<>>, pending |-> Idle]

\* alone[u] after the step of u's call c that led to x: at getUserRoll the
\* lone call reads u's own hash and draws what the call drew, at saveUserRoll
\* it saves its own outcome
AloneAfter(u, t, c, x) ==
    LET a  == AloneOf(u)
        wa == [World EXCEPT !.rolls[t] = a.hash]
        saved(p) == SaveUserRoll(wa, t, u, p.outcome.toSave).rolls[t]
    IN  CASE c.pc = "getUserRoll" ->
               { IF y.c.pc = "done" THEN [hash |-> a.hash, pending |-> Idle]
                 ELSE IF x.c.pc = "done" THEN [hash |-> saved(y.c), pending |-> Idle]
                 ELSE [hash |-> a.hash, pending |-> y.c]
                 : y \in { z \in RollGetUserRoll(wa, c) :
                             (x.c.pc = "saveUserRoll" /\ z.c.pc = "saveUserRoll")
                                => z.c.rollValue = x.c.rollValue } }
          [] c.pc = "saveUserRoll" ->
               { IF a.pending.pc = "saveUserRoll"
                 THEN [hash |-> saved(a.pending), pending |-> Idle]
                 ELSE a }
          [] OTHER -> {a}

\* a step of the call c of user u; the caller takes the result at the return
RollStep(u, t, c) ==
    /\ \E x \in StepOf(World, c) :
          /\ Commit(u, [w |-> x.w, c |-> IF x.c.pc = "done" THEN Idle ELSE x.c])
          /\ \E a \in AloneAfter(u, t, c, x) : alone' = Put(alone, u, a)
    /\ UNCHANGED <<nCreated, elim, facade, utils>>

RollsCreateTournament(rollLimit) ==
    /\ nCreated = 0
    /\ nCreated' = nCreated + 1
    /\ \E x \in Run(World, CreateCall("Cup", MaxDraw, rollLimit, 1, "channel")) :
          Commit(1, [w |-> x.w, c |-> calls[1]])
    /\ UNCHANGED <<elim, alone, facade, utils>>

BeginRoll(u, t) ==
    /\ calls[u].pc = "idle"
    /\ RollStep(u, t, RollCall(t, u))

ContinueRoll(u, t) ==
    /\ calls[u].pc # "idle"
    /\ RollStep(u, t, calls[u])

NextRolls ==
    \/ \E rollLimit \in 1..MaxRollLimit : RollsCreateTournament(rollLimit)
    \/ \E u \in ConcUsers, t \in TargetIds : BeginRoll(u, t)
    \/ \E u \in ConcUsers, t \in TargetIds : ContinueRoll(u, t)

SpecRolls == Init /\ [][NextRolls]_vars

(* SpecFacade: the functions of the storage service called one after the  *)
(* other, while Redis and the disk come and go and Redis drops keys        *)

\* the tiers after a call, the call with what it returned in slot 1
FacadeCommit(f, call) ==
    /\ cache' = f.cache
    /\ disk' = f.disk
    /\ calls' = [calls EXCEPT ![1] = call]
    /\ UNCHANGED <<redisUp, diskUp, clock, store, maxDrawn, nCreated, elim, alone, utils>>

\* stored after a storeData of key that returned result
StoredAfter(key, value, result) ==
    IF result
    THEN Put(stored, key, [value |-> value, cacheDown |-> ~redisUp /\ diskUp])
    ELSE Drop(stored, key)

StoreDataCall(key, value, options) ==
    LET r == StoreData(Tiers, key, value, options)
    IN  /\ FacadeCommit(r.f, [op |-> "storeData", pc |-> "done",
                              args |-> [key |-> key, value |-> value, options |-> options],
                              result |-> r.result, redisSuccess |-> r.redisSuccess,
                              diskTried |-> r.diskTried, diskSuccess |-> r.diskSuccess])
        /\ stored' = StoredAfter(key, value, r.result)
        /\ removedKeys' = removedKeys \ {key}

RetrieveDataCall(key) ==
    LET r == RetrieveData(Tiers, key)
    IN  /\ FacadeCommit(r.f, [op |-> "retrieveData", pc |-> "done", args |-> [key |-> key],
                              result |-> r.result, diskTried |-> r.diskTried])
        /\ UNCHANGED <<stored, removedKeys>>

RemoveDataCall(key) ==
    LET r == RemoveData(Tiers, key)
    IN  /\ FacadeCommit(r.f, [op |-> "removeData", pc |-> "done", args |-> [key |-> key],
                              result |-> r.result])
        /\ stored' = Drop(stored, key)
        /\ removedKeys' = IF r.result THEN removedKeys \cup {key} ELSE removedKeys

StoreJSONCall(key, data, options) ==
    LET r == StoreJSON(Tiers, key, data, options)
    IN  /\ FacadeCommit(r.f, [op |-> "storeJSON", pc |-> "done",
                              args |-> [key |-> key, data |-> data, options |-> options],
                              result |-> r.result])
        /\ stored' = StoredAfter(key, Stringify(data), r.result)
        /\ removedKeys' = removedKeys \ {key}

RetrieveJSONCall(key) ==
    LET r == RetrieveJSON(Tiers, key)
    IN  /\ FacadeCommit(r.f, [op |-> "retrieveJSON", pc |-> "done", args |-> [key |-> key],
                              result |-> r.result])
        /\ UNCHANGED <<stored, removedKeys>>

\* Redis or the disk becomes unavailable, or available again
TierChange(redis, working) ==
    /\ redisUp' = redis
    /\ diskUp' = working
    /\ <<redis, working>> # <<redisUp, diskUp>>
    /\ stored' = [k \in DOMAIN stored |-> [stored[k] EXCEPT !.cacheDown = FALSE]]
    /\ UNCHANGED removedKeys
    /\ calls' = [calls EXCEPT ![1] = Idle]
    /\ UNCHANGED <<cache, disk, clock, store, maxDrawn, nCreated, elim, alone, utils>>

\* Redis drops the key: its expiry has passed, or it is evicted
CacheLoses(key) ==
    /\ key \in DOMAIN cache
    /\ cache' = Drop(cache, key)
    /\ calls' = [calls EXCEPT ![1] = Idle]
    /\ UNCHANGED <<disk, redisUp, diskUp, stored, removedKeys, clock, store, maxDrawn, nCreated, elim,
                   alone, utils>>

NextFacade ==
    \/ \E key \in Keys, value \in {EmptyString, PlainText}, options \in Options :
          StoreDataCall(key, value, options)
    \/ \E key \in Keys : RetrieveDataCall(key)
    \/ \E key \in Keys : RemoveDataCall(key)
    \/ \E key \in Keys, data \in Objects, options \in Options : StoreJSONCall(key, data, options)
    \/ \E key \in Keys : RetrieveJSONCall(key)
    \/ \E redis \in BOOLEAN, working \in BOOLEAN : TierChange(redis, working)
    \/ \E key \in Keys : CacheLoses(key)

SpecFacade == Init /\ [][NextFacade]_vars

(* SpecRemove: SpecFacade with dataExists *)

DataExistsCall(key) ==
    /\ calls' = [calls EXCEPT ![1] = [op |-> "dataExists", pc |-> "done", args |-> [key |-> key],
                                      result |-> DataExists(Tiers, key)]]
    /\ UNCHANGED <<clock, store, maxDrawn, nCreated, elim, alone, facade, utils>>

NextRemove == NextFacade \/ \E key \in Keys : DataExistsCall(key)

SpecRemove == Init /\ [][NextRemove]_vars

(* SpecSession: the sessions of the users, stored and retrieved while the  *)
(* tiers come and go                                                       *)

StoreUserSessionCall(userId, sessionData) ==
    LET r == StoreUserSession(Tiers, userId, sessionData)
    IN  /\ FacadeCommit(r.f, [op |-> "storeUserSession", pc |-> "done",
                              args |-> [userId |-> userId, sessionData |-> sessionData],
                              result |-> r.result])
        /\ stored' = StoredAfter(SessionKey(userId), Stringify(sessionData), r.result)
        /\ removedKeys' = removedKeys \ {SessionKey(userId)}

RetrieveUserSessionCall(userId) ==
    LET r == RetrieveUserSession(Tiers, userId)
    IN  /\ FacadeCommit(r.f, [op |-> "retrieveUserSession", pc |-> "done",
                              args |-> [userId |-> userId], result |-> r.result])
        /\ UNCHANGED <<stored, removedKeys>>

NextSession ==
    \/ \E u \in ConcUsers, sessionData \in Objects : StoreUserSessionCall(u, sessionData)
    \/ \E u \in ConcUsers : RetrieveUserSessionCall(u)
    \/ \E redis \in BOOLEAN, working \in BOOLEAN : TierChange(redis, working)
    \/ \E u \in ConcUsers : CacheLoses(SessionKey(u))

SpecSession == Init /\ [][NextSession]_vars

(* SpecGame: MaxGameCalls calls of the game-state manager, overlapping *)

GameCommit(i, x) ==
    /\ games' = x.games
    /\ calls' = [calls EXCEPT ![i] = x.c]
    /\ UNCHANGED <<clock, store, maxDrawn, nCreated, elim, alone, facade,
                   limits, history, memo, computed>>

\* a call enters in a free slot and runs to its first await
BeginGameCall(i, c, available) ==
    /\ calls[i].pc \in {"idle", "done"}
    /\ nCalls < MaxGameCalls
    /\ nCalls' = nCalls + 1
    /\ GameCommit(i, GameStepOf(games, c @@ [n |-> nCalls + 1], clock, available))

\* the store awaited by the call in slot i completes and the call returns
ContinueGameCall(i, available) ==
    /\ calls[i].pc = "storeGameState"
    /\ GameCommit(i, GameStepOf(games, calls[i], clock, available))
    /\ UNCHANGED nCalls

GameCalls ==
    {GameCall("createGame", [gameId |-> g, type |-> "quiz", initialData |-> <<>>]) : g \in GameIds}
    \cup {GameCall("startGame", [gameId |-> g]) : g \in GameIds}
    \cup {GameCall(op, [gameId |-> g, userId |-> u]) :
             op \in {"addPlayer", "removePlayer"}, g \in GameIds, u \in ConcUsers}
    \cup {GameCall("updateGameData", [gameId |-> g, data |-> [round |-> 1]]) : g \in GameIds}
    \cup {GameCall("completeGame", [gameId |-> g, finalData |-> d]) :
             g \in GameIds, d \in {<<>>, [winner |-> 1]}}
    \cup {GameCall("cancelGame", [gameId |-> g, reason |-> r]) :
             g \in GameIds, r \in {"", "timeout"}}

NextGame ==
    \/ \E i \in Slots, c \in GameCalls, available \in BOOLEAN : BeginGameCall(i, c, available)
    \/ \E i \in Slots, available \in BOOLEAN : ContinueGameCall(i, available)

SpecGame == Init /\ [][NextGame]_vars

(* SpecRate: isRateLimited calls of the users for the actions as time passes *)

RateFrame ==
    UNCHANGED <<store, maxDrawn, calls, nCreated, elim, alone, facade,
                games, memo, computed, nCalls>>

\* history records the call with the resetAt of the key's entry after it
IsRateLimitedCall(userId, action) ==
    /\ Len(history) < MaxRateCalls
    /\ LET r == IsRateLimited(limits, userId, action, clock)
       IN  /\ limits' = r.limits
           /\ history' = Append(history,
                 [userId |-> userId, action |-> action, time |-> clock,
                  limited |-> r.result,
                  resetAt |-> r.limits[RateKey(userId, action)].resetAt])
    /\ UNCHANGED clock
    /\ RateFrame

\* the timer of the constructor runs cleanup
CleanupCall ==
    /\ limits' = Cleanup(limits, clock)
    /\ UNCHANGED <<clock, history>>
    /\ RateFrame

RateTick ==
    /\ clock < MaxTime
    /\ clock' = clock + 1
    /\ UNCHANGED <<limits, history>>
    /\ RateFrame

NextRate ==
    \/ \E userId \in ConcUsers, action \in Actions : IsRateLimitedCall(userId, action)
    \/ CleanupCall
    \/ RateTick

SpecRate == Init /\ [][NextRate]_vars

(* SpecCache: getOrCompute calls that overlap, as time passes *)

CacheFrame ==
    UNCHANGED <<store, maxDrawn, nCreated, elim, alone, facade, games, limits, history>>

BeginGetOrCompute(i, key) ==
    /\ calls[i].pc \in {"idle", "done"}
    /\ nCalls < MaxCacheCalls
    /\ nCalls' = nCalls + 1
    /\ LET c == [op |-> "getOrCompute", pc |-> "start",
                 args |-> [key |-> key, ttl |-> CacheTtl], n |-> nCalls + 1]
           x == GetOrComputeStart(memo, c, clock)
       IN  /\ memo' = x.memo
           /\ calls' = [calls EXCEPT ![i] = x.c]
           /\ computed' = IF x.invoked
                          THEN Append(computed, [key |-> key, time |-> clock, n |-> c.n])
                          ELSE computed
    /\ UNCHANGED clock
    /\ CacheFrame

ComputeFnResolves(i, value) ==
    /\ calls[i].pc = "computeFn"
    /\ LET x == GetOrComputeFinish(memo, calls[i], value, clock)
       IN  /\ memo' = x.memo
           /\ calls' = [calls EXCEPT ![i] = x.c]
    /\ UNCHANGED <<clock, computed, nCalls>>
    /\ CacheFrame

CacheTick ==
    /\ clock < MaxTime
    /\ clock' = clock + 1
    /\ UNCHANGED <<calls, memo, computed, nCalls>>
    /\ CacheFrame

NextCache ==
    \/ \E i \in Slots, key \in CacheKeys : BeginGetOrCompute(i, key)
    \/ \E i \in Slots, value \in Values : ComputeFnResolves(i, value)
    \/ CacheTick

SpecCache == Init /\ [][NextCache]_vars

(* SpecRounds: one tournament; rolls go on in the round after the first  *)
(* MaxRound rounds, and time passes within the deadline                  *)

RoundsProcessUserRoll(tournamentId, userId) ==
    /\ HasTournamentConfig(World, tournamentId) =>
          GetTournamentConfig(World, tournamentId).currentRound <= MaxRound + 1
    /\ \E x \in Run(World, RollCall(tournamentId, userId)) : Commit(1, x)
    /\ UNCHANGED <<nCreated, elim, alone, facade, utils>>

\* time passes after the tournament was created
RoundsTick ==
    /\ nCreated > 0
    /\ clock < MaxRollTime
    /\ clock' = clock + 1
    /\ UNCHANGED <<store, maxDrawn, calls, nCreated, elim, alone, facade, utils>>

NextRounds ==
    \/ \E rollLimit \in 1..MaxRollLimit : RollsCreateTournament(rollLimit)
    \/ \E t \in TargetIds, u \in Users : RoundsProcessUserRoll(t, u)
    \/ \E t \in TargetIds : EndRound(t, DEFAULT_ELIMINATION_PERCENTAGE)
    \/ RoundsTick

SpecRounds == Init /\ [][NextRounds]_vars

(* SpecBets: FlaskGamba rounds and other games, and bets placed in them *)

BetCalls ==
    {GameCall("createFlaskGambaRound",
              [gameId |-> g, channelId |-> "channel", question |-> "Will it flask?",
               options |-> <<"Yes", "No">>]) : g \in GameIds}
    \cup {GameCall("createGame", [gameId |-> g, type |-> "quiz", initialData |-> <<>>]) :
             g \in GameIds}
    \cup {GameCall("placeBet", [gameId |-> g, userId |-> u, choice |-> ch, amount |-> 10]) :
             g \in GameIds, u \in ConcUsers, ch \in {"Yes", "No"}}

NextBets ==
    \/ \E i \in Slots, c \in BetCalls, available \in BOOLEAN : BeginGameCall(i, c, available)
    \/ \E i \in Slots, available \in BOOLEAN : ContinueGameCall(i, available)

SpecBets == Init /\ [][NextBets]_vars

(* SpecScores: the functions of SpecGame and recordScore, final data and *)
(* cancel reasons left out                                                *)

ScoreCalls ==
    {c \in GameCalls : /\ c.op = "completeGame" => c.args.finalData = <<>>
                       /\ c.op = "cancelGame" => c.args.reason = ""}
    \cup {GameCall("recordScore", [gameId |-> g, userId |-> u, score |-> 100]) :
             g \in GameIds, u \in ConcUsers}

NextScores ==
    \/ \E i \in Slots, c \in ScoreCalls, available \in BOOLEAN : BeginGameCall(i, c, available)
    \/ \E i \in Slots, available \in BOOLEAN : ContinueGameCall(i, available)

SpecScores == Init /\ [][NextScores]_vars

(* SpecReset: the calls of the users for the default action, with reset *)
(* called by the owner of the limiter                                   *)

ResetCall(userId, action) ==
    /\ limits' = Reset(limits, userId, action)
    /\ UNCHANGED <<clock, history>>
    /\ RateFrame

NextReset ==
    \/ \E userId \in ConcUsers : IsRateLimitedCall(userId, "default")
    \/ \E userId \in ConcUsers : ResetCall(userId, "default")
    \/ CleanupCall
    \/ RateTick

SpecReset == Init /\ [][NextReset]_vars

(* SpecReadRemove: retrieveData and removeData calls that overlap, between *)
(* storeData calls, while Redis drops keys                                *)

\* removedKeys: the keys whose removeData deleted from both tiers, not stored
\* since
StorageCommit(i, x) ==
    /\ cache' = x.f.cache
    /\ disk' = x.f.disk
    /\ calls' = [calls EXCEPT ![i] = x.c]
    /\ removedKeys' = IF x.c.op = "removeData" /\ x.c.pc = "done"
                         /\ x.c.redisSuccess /\ x.c.diskSuccess
                      THEN removedKeys \cup {x.c.args.key}
                      ELSE removedKeys
    /\ UNCHANGED <<redisUp, diskUp, stored, clock, store, maxDrawn, nCreated, elim, alone,
                   games, limits, history, memo, computed>>

BeginStorageCall(i, op, key) ==
    /\ calls[i].pc \in {"idle", "done"}
    /\ nCalls < MaxStorageCalls
    /\ nCalls' = nCalls + 1
    /\ StorageCommit(i, StorageStepOf(Tiers, [op |-> op, pc |-> "start",
                                              args |-> [key |-> key], n |-> nCalls + 1]))

ContinueStorageCall(i) ==
    /\ calls[i].op \in {"retrieveData", "removeData"}
    /\ calls[i].pc \notin {"idle", "done"}
    /\ StorageCommit(i, StorageStepOf(Tiers, calls[i]))
    /\ UNCHANGED nCalls

\* a storeData call made while no other call is under way
StoreBetween(key, value, options) ==
    /\ \A i \in Slots : calls[i].pc \in {"idle", "done"}
    /\ StoreDataCall(key, value, options)

NextReadRemove ==
    \/ \E i \in Slots, op \in {"retrieveData", "removeData"}, key \in Keys :
          BeginStorageCall(i, op, key)
    \/ \E i \in Slots : ContinueStorageCall(i)
    \/ \E key \in Keys, options \in Options : StoreBetween(key, PlainText, options)
    \/ \E key \in Keys : CacheLoses(key)

SpecReadRemove == Init /\ [][NextReadRemove]_vars

(* SpecSurvivors: one tournament played to its end: in the first round any *)
(* users roll, in a later round the survivors of the round before, and the *)
(* round is ended with the default percentage once they have rolled        *)

\* the users who may roll: everyone in round 1, then the participants the
\* open round was seeded with
Survivors(t) ==
    IF tournament[t].currentRound = 1 THEN Users
    ELSE Range(tournamentRound[<<t, tournament[t].currentRound>>].participants)

SurvivorRoll(t, u) ==
    /\ t \in DOMAIN tournament
    /\ tournament[t].status = "active"
    /\ u \in Survivors(t)
    /\ u \in DOMAIN tournamentRolls[t] =>
          tournamentRolls[t][u].rollsUsed < tournament[t].rollLimit
    /\ \E x \in Run(World, RollCall(t, u)) : Commit(1, x)
    /\ UNCHANGED <<nCreated, elim, alone, facade, utils>>

SurvivorsEndRound(t) ==
    /\ t \in DOMAIN tournament
    /\ tournament[t].status = "active"
    /\ DOMAIN tournamentRolls[t] # {}
    /\ tournament[t].currentRound > 1 => DOMAIN tournamentRolls[t] = Survivors(t)
    /\ \E x \in Run(World, EndCall(t, DEFAULT_ELIMINATION_PERCENTAGE)) : Commit(1, x)
    /\ UNCHANGED <<nCreated, elim, alone, facade, utils>>

NextSurvivors ==
    \/ \E rollLimit \in 1..MaxRollLimit : RollsCreateTournament(rollLimit)
    \/ \E t \in TargetIds, u \in Users : SurvivorRoll(t, u)
    \/ \E t \in TargetIds : SurvivorsEndRound(t)

\* the play goes on: while a roll or an endRound can be made, one is made
SpecSurvivors == Init /\ [][NextSurvivors]_vars /\ WF_vars(NextSurvivors)

----------------------------------------------------------------------------
(* Properties.  In Spec and SpecRecreate calls[1] is the call that         *)
(* returned last; a step that changes it or the store is a call.           *)

Last == calls[1]

CallStep == calls'[1] # calls[1] \/ store' # store

Returned(op) == Last.op = op /\ Last.pc = "done"

RollsOf(t) == tournamentRolls[t]

\* C1: every stored UserRoll has rollsUsed <= rollLimit of its tournament
C1_RollsUsedWithinLimit ==
    \A t \in DOMAIN tournament : \A u \in DOMAIN RollsOf(t) :
        RollsOf(t)[u].rollsUsed <= tournament[t].rollLimit

\* C2: a user who has rolled in the running round has a stored roll, and it is
\* the highest value drawn for that user in the round
C2_StoredRollIsBestDraw ==
    \A t \in TournamentIds : \A u \in Users :
        maxDrawn[t][u] > 0 =>
            u \in DOMAIN RollsOf(t) /\ RollsOf(t)[u].roll = maxDrawn[t][u]

\* what processUserRoll(t, u) has to answer in the current state
ExpectedRoll(t, u) ==
    IF t \notin DOMAIN tournament THEN "Tournament not found"
    ELSE IF tournament[t].status # "active" THEN "Tournament is not active"
    ELSE IF clock > tournament[t].deadline THEN "Tournament deadline has passed"
    ELSE IF u \in DOMAIN RollsOf(t) /\ RollsOf(t)[u].rollsUsed >= tournament[t].rollLimit
         THEN "You have used all rolls"
    ELSE "success"

RollFailures ==
    {"Tournament not found", "Tournament is not active",
     "Tournament deadline has passed", "You have used all rolls"}

\* C3: processUserRoll answers with the first check that fails, in the order
\* missing, not active, deadline passed, roll limit reached; it then returns
\* success = false with that message and leaves configs, rolls and rounds unchanged
C3_RollChecksInOrder ==
    [][ (CallStep /\ calls'[1].op = "processUserRoll") =>
          LET r        == calls'[1].result
              expected == ExpectedRoll(calls'[1].args.tournamentId, calls'[1].args.userId)
          IN  IF expected \in RollFailures
              THEN /\ r.success = FALSE
                   /\ r.message.text = expected
                   /\ UNCHANGED store
              ELSE /\ r.success = TRUE
                   /\ r.message.text \notin RollFailures ]_vars

\* a roll was refused for the status although the deadline has passed as well
C3_Witness ==
    /\ Returned("processUserRoll")
    /\ Last.result.success = FALSE
    /\ Last.result.message.text = "Tournament is not active"
    /\ clock > tournament[Last.args.tournamentId].deadline

\* C4: the eliminated list holds exactly floor(n*pct/100) distinct userIds, all
\* of them participants, and no eliminated roll is above a surviving roll
C4_EliminatedCount ==
    elim.phase = "output" =>
        LET rollOf == [k \in 1..elim.n |-> RecordedRolls(elim.n)[k].roll]
            out    == Range(elim.eliminated)
        IN  /\ Len(elim.eliminated) = (elim.n * elim.eliminationPercentage) \div 100
            /\ Cardinality(out) = Len(elim.eliminated)
            /\ out \subseteq Range(elim.participants)
            /\ \A a \in out : \A b \in Range(elim.participants) \ out : rollOf[a] <= rollOf[b]

\* the step is a successful endRound(t, pct) over n rolls that eliminates e users
EndRoundSucceeds(t, n, e) ==
    /\ CallStep
    /\ calls'[1].op = "endRound"
    /\ calls'[1].result.success = TRUE
    /\ calls'[1].args.tournamentId = t
    /\ n = Cardinality(DOMAIN RollsOf(t))
    /\ e = Len(calls'[1].result.eliminated)

\* the tournament is completed at its round, no next round is stored, and the
\* reported winner is the participant ranked first
CompletesWithWinner(t) ==
    LET cur    == tournament[t].currentRound
        closed == tournamentRound'[<<t, cur>>]
        first  == closed.participants[1]
    IN  /\ tournament'[t].status = "completed"
        /\ tournament'[t].currentRound = cur
        /\ <<t, cur + 1>> \in DOMAIN tournamentRound' =>
              /\ <<t, cur + 1>> \in DOMAIN tournamentRound
              /\ tournamentRound'[<<t, cur + 1>>] = tournamentRound[<<t, cur + 1>>]
        /\ \A u \in DOMAIN RollsOf(t) : RollsOf(t)[u].roll <= RollsOf(t)[first].roll
        /\ calls'[1].result.message =
              Msg("Tournament complete! Winner", <<RollsOf(t)[first].username>>)

\* C5 as stated: endRound with n - eliminateCount <= 1 completes the tournament
\* with the first-ranked participant as winner, and a single participant wins
\* with nobody eliminated
C5_Original ==
    [][ \A t \in TargetIds, n \in 0..NumUsers, e \in 0..NumUsers :
          (EndRoundSucceeds(t, n, e) /\ n - e <= 1) =>
              /\ CompletesWithWinner(t)
              /\ n = 1 => calls'[1].result.eliminated = <<>> ]_vars

\* C5 amended: as C5, the single participant having nobody eliminated when the
\* elimination percentage is below 100
C5_CompletedWhenOneRemains ==
    [][ \A t \in TargetIds, n \in 0..NumUsers, e \in 0..NumUsers :
          (EndRoundSucceeds(t, n, e) /\ n - e <= 1) =>
              /\ CompletesWithWinner(t)
              /\ (n = 1 /\ calls'[1].args.eliminationPercentage < 100) =>
                    calls'[1].result.eliminated = <<>> ]_vars

\* a single participant has won, nobody eliminated
C5_Witness ==
    /\ Returned("endRound")
    /\ Last.result.success = TRUE
    /\ Last.result.message.text = "Tournament complete! Winner"
    /\ Last.result.eliminated = <<>>
    /\ LET t == Last.args.tournamentId
       IN  /\ tournament[t].status = "completed"
           /\ Len(tournamentRound[<<t, tournament[t].currentRound>>].participants) = 1

\* C6: endRound with n - eliminateCount >= 2 increments currentRound, stays
\* active, deletes the rolls and stores an open RoundData for the new round
\* whose participants are the non-eliminated users of the closed round
C6_NextRoundWhenTwoRemain ==
    [][ \A t \in TargetIds, n \in 0..NumUsers, e \in 0..NumUsers :
          (EndRoundSucceeds(t, n, e) /\ n - e >= 2) =>
              LET cur    == tournament[t].currentRound
                  closed == tournamentRound'[<<t, cur>>]
                  next   == tournamentRound'[<<t, cur + 1>>]
              IN  /\ tournament'[t].currentRound = cur + 1
                  /\ tournament'[t].status = "active"
                  /\ tournamentRolls'[t] = <<>>
                  /\ Range(closed.participants) = DOMAIN RollsOf(t)
                  /\ closed.eliminated = calls'[1].result.eliminated
                  /\ <<t, cur + 1>> \in DOMAIN tournamentRound'
                  /\ next.roundNumber = cur + 1
                  /\ Range(next.participants) =
                        Range(closed.participants) \ Range(closed.eliminated)
                  /\ Len(next.participants) = n - e
                  /\ next.eliminated = <<>>
                  /\ "endTime" \notin DOMAIN next ]_vars

\* a round with an eliminated user has been followed by a next round
C6_Witness ==
    /\ Returned("endRound")
    /\ Last.result.success = TRUE
    /\ Last.result.message.text = "Round ended. Starting round"
    /\ Len(Last.result.eliminated) >= 1
    /\ LET t == Last.args.tournamentId
       IN  /\ tournament[t].status = "active"
           /\ Len(tournamentRound[<<t, tournament[t].currentRound>>].participants) >= 2

\* C7: once a tournament is completed or cancelled, no processUserRoll,
\* endRound or cancelTournament changes its status
C7_TerminalStatus ==
    [][ \A t \in DOMAIN tournament :
          ( /\ tournament[t].status \in {"completed", "cancelled"}
            /\ CallStep
            /\ calls'[1].op \in {"processUserRoll", "endRound", "cancelTournament"} )
          => tournament'[t].status = tournament[t].status ]_vars

\* C8: a stored RoundData with endTime set is never changed
C8_ClosedRoundImmutable ==
    [][ \A key \in DOMAIN tournamentRound :
          "endTime" \in DOMAIN tournamentRound[key] =>
              /\ key \in DOMAIN tournamentRound'
              /\ tournamentRound'[key] = tournamentRound[key] ]_vars

\* C9: cancelTournament of a missing tournament returns false and writes
\* nothing; of a stored one it returns true and changes its status to cancelled
\* and its updatedAt, nothing else
C9_CancelFrame ==
    [][ (CallStep /\ calls'[1].op = "cancelTournament") =>
          LET t == calls'[1].args.tournamentId
          IN  IF t \notin DOMAIN tournament
              THEN calls'[1].result = FALSE /\ UNCHANGED store
              ELSE /\ calls'[1].result = TRUE
                   /\ tournament' = [tournament EXCEPT ![t] =
                          [@ EXCEPT !.status = "cancelled",
                                    !.updatedAt = tournament'[t].updatedAt]]
                   /\ UNCHANGED <<tournamentRolls, tournamentRound>> ]_vars

\* a tournament with recorded rolls has been cancelled
C9_Witness ==
    /\ Returned("cancelTournament")
    /\ Last.result = TRUE
    /\ tournament[Last.args.tournamentId].status = "cancelled"
    /\ DOMAIN RollsOf(Last.args.tournamentId) # {}

\* C10: createTournament returns an id no earlier tournament has
C10_UniqueIds ==
    [][ nCreated' > nCreated => calls'[1].result.id \notin DOMAIN tournament ]_vars

\* the step is a call of op that returns
CallReturns(op) == calls'[1] # calls[1] /\ calls'[1].op = op

\* C11: getAllRoundData(t) returns exactly the stored RoundData records of
\* tournament t, in strictly ascending roundNumber order, whatever the order
\* of the key scan
C11_RoundsAscending ==
    [][ CallReturns("getAllRoundData") =>
          LET t      == calls'[1].args.tournamentId
              result == calls'[1].result
              mine   == {k \in DOMAIN tournamentRound : k[1] = t}
          IN  /\ Range(result) = {tournamentRound[k] : k \in mine}
              /\ Len(result) = Cardinality(mine)
              /\ \A a, b \in DOMAIN result :
                    a < b => result[a].roundNumber < result[b].roundNumber ]_vars

\* the rounds of a tournament were read while another tournament has a round
C11_Witness ==
    /\ Returned("getAllRoundData")
    /\ Len(Last.result) > 1
    /\ \E k \in DOMAIN tournamentRound : k[1] # Last.args.tournamentId

\* C12: getAllUserRolls returns every well-formed roll of the hash, also when
\* other fields of the hash do not parse
C12_MalformedSkipped ==
    [][ CallReturns("getAllUserRolls") =>
          LET hash == tournamentRolls[calls'[1].args.tournamentId]
          IN  Range(calls'[1].result) =
                 {hash[u] : u \in {x \in DOMAIN hash : ~Malformed(hash[x])}} ]_vars

\* C13: listActiveTournaments returns exactly the TournamentConfig records of
\* the tournament:<id> keys, each once, whatever rolls and rounds are stored
C13_ListsExactlyConfigs ==
    [][ CallReturns("listActiveTournaments") =>
          /\ Range(calls'[1].result) = {tournament[t] : t \in DOMAIN tournament}
          /\ Len(calls'[1].result) = Cardinality(DOMAIN tournament) ]_vars

\* C14: a processUserRoll or endRound call during which a store command
\* failed ends with the error thrown to the caller, not with a domain result
C14_StoreFailurePropagates ==
    (Last.pc = "done" /\ Last.op \in {"processUserRoll", "endRound"} /\ Last.failed)
        => "thrown" \in DOMAIN Last.result

\* C15: while a user's roll stays recorded, no call lowers its rollsUsed,
\* store commands failing or not
C15_RollsUsedNeverDecreases ==
    [][ \A t \in TournamentIds :
          \A u \in DOMAIN tournamentRolls[t] \cap DOMAIN tournamentRolls'[t] :
             tournamentRolls'[t][u].rollsUsed >= tournamentRolls[t][u].rollsUsed ]_vars

\* user u has no call in flight and the stored roll of u is the one u's calls
\* produce alone
AloneAgrees(u, t) ==
    calls[u].pc = "idle" =>
        /\ (u \in DOMAIN tournamentRolls[t]) = (u \in DOMAIN AloneOf(u).hash)
        /\ u \in DOMAIN tournamentRolls[t] => tournamentRolls[t][u] = AloneOf(u).hash[u]

\* the step leaves the entries of the users other than u as they are
OthersUntouched(u, t) ==
    \A v \in Users \ {u} :
        /\ (v \in DOMAIN tournamentRolls[t]) = (v \in DOMAIN tournamentRolls'[t])
        /\ v \in DOMAIN tournamentRolls[t] => tournamentRolls'[t][v] = tournamentRolls[t][v]

\* C16: with the processUserRoll calls of different users interleaved at
\* their storage steps, the roll stored for a user whose calls have returned
\* is the one the user's calls produce alone, and a step of one user's call
\* creates, changes or removes no other user's entry
C16_RollsIndependent ==
    [][ \A t \in TargetIds :
          /\ \A u \in ConcUsers : AloneAgrees(u, t)'
          /\ \A u \in ConcUsers : calls'[u] # calls[u] => OthersUntouched(u, t) ]_vars

\* two users are between the read and the write of a call at once, each with
\* a roll recorded by an earlier call
C16_Witness ==
    \E t \in TargetIds :
        /\ \A u \in ConcUsers : calls[u].pc = "saveUserRoll"
        /\ ConcUsers \subseteq DOMAIN tournamentRolls[t]

\* C17: storeData calls writeDisk exactly when persistToDisk is set or the
\* cache write failed, and returns true iff a write it made succeeded, for
\* every outcome of the two writes and either flag
C17_StoreDataResult ==
    [][ CallReturns("storeData") =>
          LET c == calls'[1]
          IN  /\ c.redisSuccess = redisUp
              /\ c.diskTried = (c.args.options.persistToDisk \/ ~c.redisSuccess)
              /\ c.diskTried => c.diskSuccess = diskUp
              /\ c.result = (c.redisSuccess \/ (c.diskTried /\ c.diskSuccess))
              /\ c.result = FALSE <=> (~c.redisSuccess /\ c.diskTried /\ ~c.diskSuccess)
              /\ c.redisSuccess => cache'[c.args.key].value = c.args.value
              /\ (c.diskTried /\ c.diskSuccess) => disk'[c.args.key] = c.args.value
              /\ ~(c.diskTried /\ c.diskSuccess) => disk' = disk ]_vars

\* storeData returned true although its cache write failed
C17_Witness ==
    /\ Returned("storeData")
    /\ ~Last.redisSuccess /\ Last.diskTried /\ Last.diskSuccess /\ Last.result
    /\ ~Last.args.options.persistToDisk

\* the cache answers a GET of key with a value
CacheHit(key) == redisUp /\ key \in DOMAIN cache

DiskHit(key) == diskUp /\ key \in DOMAIN disk

\* C18: retrieveData returns the cache value when the cache holds the key
\* (a GET of the key answers with a value) and does not read the disk; on a
\* miss with the file on disk it returns the file's content and, Redis
\* taking writes, the cache then holds that content for the key with an
\* expiry of 3600 seconds; with the key in neither tier it returns null and
\* both tiers stay as they are
C18_RetrieveData ==
    [][ CallReturns("retrieveData") =>
          LET c   == calls'[1]
              key == c.args.key
          IN  /\ CacheHit(key) =>
                    /\ c.result = cache[key].value
                    /\ ~c.diskTried
                    /\ cache' = cache /\ disk' = disk
              /\ (~CacheHit(key) /\ DiskHit(key)) =>
                    /\ c.result = disk[key]
                    /\ disk' = disk
                    /\ redisUp => cache' = Put(cache, key, [value |-> disk[key],
                                                          ttl |-> READ_THROUGH_TTL])
              /\ (~CacheHit(key) /\ ~DiskHit(key)) =>
                    /\ c.result = Null
                    /\ cache' = cache /\ disk' = disk ]_vars

\* a read was served from the disk and put the value back into the cache
C18_Witness ==
    /\ Returned("retrieveData")
    /\ Last.diskTried /\ Last.result # Null
    /\ redisUp /\ Last.args.key \in DOMAIN cache
    /\ cache[Last.args.key] = [value |-> Last.result, ttl |-> READ_THROUGH_TTL]

\* C19: retrieveJSON(k) after a storeJSON(k, obj) that returned true, with no
\* store or remove of k since, returns obj, Redis and the disk working at
\* the read, whether the cache still holds the key or has lost it
C19_JSONRoundTrip ==
    [][ (CallReturns("retrieveJSON") /\ redisUp /\ diskUp) =>
          LET key == calls'[1].args.key
          IN  (key \in DOMAIN stored /\ IsJSON(stored[key].value))
                  => calls'[1].result = Parse(stored[key].value) ]_vars

\* C20: with Redis unavailable and the disk working, storeData returns true
\* whatever the options, and a retrieveData of the key that follows, Redis
\* unavailable and the disk working all along, returns the value stored
C20_CacheDownRoundTrip ==
    [][ /\ (CallReturns("storeData") /\ ~redisUp /\ diskUp) => calls'[1].result = TRUE
        /\ CallReturns("retrieveData") =>
              LET key == calls'[1].args.key
              IN  (key \in DOMAIN stored /\ stored[key].cacheDown)
                      => calls'[1].result = stored[key].value ]_vars

\* a value stored without persistToDisk while Redis was unavailable has been
\* read back
C20_Witness ==
    /\ Returned("retrieveData")
    /\ Last.args.key \in DOMAIN stored
    /\ stored[Last.args.key].cacheDown
    /\ Last.result = stored[Last.args.key].value
    /\ Last.args.key \notin DOMAIN cache

\* C21: after a removeData(key) that returned true, and with no store of the
\* key since, dataExists(key) returns false and retrieveData(key) returns
\* null, whichever tiers were available at the removal and are at the read
C21_RemovedEverywhere ==
    [][ /\ CallReturns("dataExists") =>
              (calls'[1].args.key \in removedKeys => calls'[1].result = FALSE)
        /\ CallReturns("retrieveData") =>
              (calls'[1].args.key \in removedKeys => calls'[1].result = Null) ]_vars

\* C22: storeUserSession never writes the disk and returns false when Redis
\* is unavailable; retrieveUserSession returns null when Redis is unavailable
C22_SessionCacheOnly ==
    [][ /\ CallReturns("storeUserSession") =>
              /\ disk' = disk
              /\ ~redisUp => calls'[1].result = FALSE
        /\ CallReturns("retrieveUserSession") =>
              (~redisUp => calls'[1].result = Null) ]_vars

\* C23: a step changes the status of a stored game only from pending to
\* active, from active to completed or cancelled, or from pending to
\* cancelled; the status of a completed or cancelled game never changes
StatusChanges ==
    {<<"pending", "active">>, <<"active", "completed">>,
     <<"active", "cancelled">>, <<"pending", "cancelled">>}

C23_StatusTransitions ==
    [][\A g \in DOMAIN games :
          (g \in DOMAIN games' /\ games'[g].status # games[g].status)
             => <<games[g].status, games'[g].status>> \in StatusChanges]_vars

NoDuplicates(players) ==
    \A j, k \in DOMAIN players : players[j] = players[k] => j = k

\* the call in slot i returns at this step
GameReturns(i, op) ==
    /\ calls'[i] # calls[i]
    /\ calls'[i].op = op
    /\ calls'[i].pc = "done"

WindowCalls(j) ==
    {i \in 1..j : /\ history[i].userId = history[j].userId
                  /\ history[i].action = history[j].action
                  /\ history[i].time >= history[j].resetAt - WindowMs}

\* C26: of the calls made in one window for one user and action exactly the
\* first maxRequests return false and every later one returns true; a call
\* leaves the entries of the other users and actions as they are
C26_WindowPerKey ==
    [][ /\ \A j \in DOMAIN history' :
              history'[j].limited <=> Cardinality(WindowCalls(j)') > MaxRequests
        /\ \A userId \in ConcUsers, action \in Actions :
              (history' # history
                 /\ <<history'[Len(history')].userId, history'[Len(history')].action>> # <<userId, action>>)
              => (/\ RateKey(userId, action) \in DOMAIN limits
                        <=> RateKey(userId, action) \in DOMAIN limits'
                  /\ RateKey(userId, action) \in DOMAIN limits
                        => limits'[RateKey(userId, action)] = limits[RateKey(userId, action)])
      ]_vars

\* a user was blocked for one action and then allowed for the other
C26_Witness ==
    \E i, j \in DOMAIN history :
        /\ i < j
        /\ history[i].userId = history[j].userId
        /\ history[i].action # history[j].action
        /\ history[i].limited /\ ~history[j].limited
        /\ history[j].time = history[i].time

\* C27: of the calls of one user for one action made in an interval of length
\* windowMs at most maxRequests return false
C27_SlidingWindow ==
    \A j \in DOMAIN history :
        Cardinality({i \in 1..j : /\ history[i].userId = history[j].userId
                                  /\ history[i].action = history[j].action
                                  /\ ~history[i].limited
                                  /\ history[i].time > history[j].time - WindowMs})
           <= MaxRequests

\* the call in slot i begins at this step
GetOrComputeBegins(i) ==
    /\ calls'[i] # calls[i]
    /\ calls[i].pc \in {"idle", "done"}
    /\ calls'[i].op = "getOrCompute"

\* C28: a getOrCompute call that begins while the key has an unexpired entry,
\* or while the computeFn of another call for the key is pending, does not
\* invoke computeFn, and the calls made for a key within the ttl of its entry
\* return the value of that entry
C28_ComputeOnce ==
    [][\A i \in Slots :
          GetOrComputeBegins(i) =>
            LET key == calls'[i].args.key
            IN  /\ (key \in DOMAIN memo /\ ~(clock > memo[key].expiresAt))
                      => /\ computed' = computed
                         /\ calls'[i].pc = "done"
                         /\ calls'[i].result = memo[key].value
                /\ (\E j \in Slots \ {i} :
                       calls[j].pc = "computeFn" /\ calls[j].args.key = key)
                      => computed' = computed ]_vars

\* the users eliminated in the closed rounds of tournament t
EliminatedOf(t) ==
    UNION {Range(tournamentRound[key].eliminated) :
             key \in {k \in DOMAIN tournamentRound :
                        k[1] = t /\ "endTime" \in DOMAIN tournamentRound[k]}}

\* C29: a processUserRoll of a user eliminated in a closed round of the
\* tournament does not succeed
C29_EliminatedCannotRoll ==
    [][ (CallStep /\ calls'[1].op = "processUserRoll" /\ calls'[1].pc = "done"
           /\ calls'[1].args.userId \in EliminatedOf(calls'[1].args.tournamentId))
        => ~calls'[1].result.success ]_vars

\* C30: after a processUserRoll that succeeded the stored roll of the user
\* has the time of the call as its timestamp
C30_TimestampOfLastRoll ==
    [][ (CallStep /\ calls'[1].op = "processUserRoll" /\ calls'[1].pc = "done"
           /\ calls'[1].result.success)
        => tournamentRolls'[calls'[1].args.tournamentId][calls'[1].args.userId].timestamp
              = clock ]_vars

GameBegins(i) ==
    /\ calls'[i] # calls[i]
    /\ calls[i].pc \in {"idle", "done"}

\* C33: startGame, addPlayer, removePlayer, updateGameData, completeGame,
\* cancelGame and recordScore called for a gameId with no stored game return
\* false at once and store nothing
C33_MissingGame ==
    [][\A i \in Slots :
          (/\ GameBegins(i)
           /\ calls'[i].op \in {"startGame", "addPlayer", "removePlayer", "updateGameData",
                                "completeGame", "cancelGame", "recordScore"}
           /\ calls'[i].args.gameId \notin DOMAIN games)
             => /\ calls'[i].pc = "done"
                /\ calls'[i].result = FALSE
                /\ games' = games ]_vars

\* recordScore and startGame have returned false and no game is stored
C33_Witness ==
    /\ games = <<>>
    /\ \E i, j \in Slots :
          /\ calls[i].op = "recordScore" /\ calls[i].pc = "done" /\ calls[i].result = FALSE
          /\ calls[j].op = "startGame" /\ calls[j].pc = "done" /\ calls[j].result = FALSE

\* C34: an isRateLimited call that is blocked leaves the limits as they are;
\* a call made after the resetAt of its key has passed, or when the key has no
\* entry (never used, cleaned up or reset), returns false and starts a window
\* with count 1 that ends windowMs later
C34_AllowedAfterWindow ==
    [][ history' # history =>
          LET h   == history'[Len(history')]
              key == RateKey(h.userId, h.action)
          IN  /\ h.limited => limits' = limits
              /\ (key \notin DOMAIN limits \/ clock > limits[key].resetAt)
                    => /\ ~h.limited
                       /\ limits'[key] = [count |-> 1, resetAt |-> clock + WindowMs] ]_vars

\* a user and action were blocked, and their next call, made after the
\* window had ended, was allowed and started a window with count 1
C34_Witness ==
    \E i \in DOMAIN history :
        LET j == Len(history)
        IN  /\ i < j
            /\ history[i].userId = history[j].userId
            /\ history[i].action = history[j].action
            /\ history[i].limited
            /\ ~history[j].limited
            /\ history[j].time > history[i].resetAt
            /\ limits[RateKey(history[j].userId, history[j].action)].count = 1

\* C35: of the processUserRoll calls one user has made in the first round of
\* a tournament, overlapping or not, at most rollLimit have returned success
C35_SuccessesWithinLimit ==
    \A t \in DOMAIN tournament : \A u \in ConcUsers :
        tournament[t].currentRound = 1 =>
            Cardinality({i \in Slots : /\ calls[i].op = "processUserRoll"
                                       /\ calls[i].pc = "done"
                                       /\ calls[i].args.tournamentId = t
                                       /\ calls[i].args.userId = u
                                       /\ calls[i].result.success})
               <= tournament[t].rollLimit

\* the participants of the closed rounds of tournament t
RankedIn(t) ==
    UNION {Range(tournamentRound[key].participants) :
             key \in {k \in DOMAIN tournamentRound :
                        k[1] = t /\ "endTime" \in DOMAIN tournamentRound[k]}}

\* C36: when a processUserRoll of a user and an endRound of the tournament
\* have both returned success, the user is among the participants of a closed
\* round or has a stored roll
C36_RollNotDiscarded ==
    \A i, j \in Slots :
        (/\ calls[i].op = "processUserRoll" /\ calls[i].pc = "done"
         /\ calls[i].result.success
         /\ calls[j].op = "endRound" /\ calls[j].pc = "done"
         /\ calls[j].result.success
         /\ calls[j].args.tournamentId = calls[i].args.tournamentId)
        => \/ calls[i].args.userId \in RankedIn(calls[i].args.tournamentId)
           \/ calls[i].args.userId \in DOMAIN tournamentRolls[calls[i].args.tournamentId]

\* C37: when a cancelTournament that returned true and an endRound that
\* returned success for the same tournament have both returned, the stored
\* status is cancelled
C37_CancelNotUndone ==
    \A i, j \in Slots :
        (/\ calls[i].op = "cancelTournament" /\ calls[i].pc = "done"
         /\ calls[i].result = TRUE
         /\ calls[j].op = "endRound" /\ calls[j].pc = "done"
         /\ calls[j].result.success
         /\ calls[j].args.tournamentId = calls[i].args.tournamentId)
        => tournament[calls[i].args.tournamentId].status = "cancelled"

\* C38: after a storeData of a key that returned true, and with no store or
\* remove of the key since, a retrieveData of the key that returns a value
\* returns the value of that store
C38_NoOlderValue ==
    [][ CallReturns("retrieveData") =>
          LET key == calls'[1].args.key
          IN  (key \in DOMAIN stored /\ calls'[1].result # Null)
                  => calls'[1].result = stored[key].value ]_vars

\* C39: once every call has returned, a key that a removeData deleted from
\* both tiers, and that was not stored since, is in neither tier, whatever
\* retrieveData calls overlapped the removal
C39_RemoveNotUndone ==
    (\A i \in Slots : calls[i].pc \in {"idle", "done"})
        => \A key \in removedKeys : key \notin DOMAIN cache /\ key \notin DOMAIN disk

\* C40: with the survivors rolling in every round and the rounds ended with
\* the default percentage, a round after the first closes with fewer
\* participants than the round before it, and an active tournament in which
\* somebody has rolled is eventually completed
C40_Terminates ==
    /\ [][\A t \in DOMAIN tournament :
             (tournament[t].currentRound > 1
                /\ "endTime" \notin DOMAIN tournamentRound[<<t, tournament[t].currentRound>>]
                /\ "endTime" \in DOMAIN tournamentRound'[<<t, tournament[t].currentRound>>])
             => Len(tournamentRound'[<<t, tournament[t].currentRound>>].participants)
                   < Len(tournamentRound[<<t, tournament[t].currentRound - 1>>].participants)
         ]_vars
    /\ \A t \in TargetIds :
          (t \in DOMAIN tournament /\ tournament[t].status = "active"
              /\ DOMAIN tournamentRolls[t] # {})
            ~> (t \in DOMAIN tournament /\ tournament[t].status = "completed")

\* three users rolled in the first round, two in the second, and the
\* tournament is completed
C40_Witness ==
    \E t \in DOMAIN tournament :
        /\ tournament[t].status = "completed"
        /\ tournament[t].currentRound = 2
        /\ Len(tournamentRound[<<t, 1>>].participants) = 3
        /\ Len(tournamentRound[<<t, 2>>].participants) = 2
        /\ "endTime" \in DOMAIN tournamentRound[<<t, 2>>]

====
